---- MODULE Spec2Model ----
(***************************************************************************)
(* Synchronization engine of minio-simple-copier: the catalog              *)
(* (db.Database), the reconciler (Service.UpdateSourceFileList) and the    *)
(* copy scheduler (Service.SyncFiles / Service.syncFile).                  *)
(*                                                                         *)
(* One command runs at a time (main.go executes one command per process),  *)
(* so the variable op says which operation is in progress.  Object keys    *)
(* are the integers 1..MaxPaths, the content of an object is the version   *)
(* number it had at the source when it was read, and an ETag is that       *)
(* version number.                                                         *)
(***************************************************************************)
EXTENDS Integers, Sequences, FiniteSets, TLC

\* ---------------------------------------------------------------- bounds
MaxPaths == 2
MaxWorkers == 2
\* overwrites of source objects in one behaviour
MaxChanges == 1
\* failures of the transports and of the catalog store in one behaviour
MaxFaults == 2
\* records of one import feed, objects of one ListObjects result
MaxFeed == 2

\* the versions an object can reach: the first one and one per overwrite
MaxVer == 1 + MaxChanges

Paths == 1..MaxPaths
WorkerIds == 1..MaxWorkers

\* ------------------------------------------------------------- constants
StatusPending == "pending"
StatusExists == "exists"
StatusNotFound == "not_found"
StatusCopying == "copying"
StatusCompleted == "completed"
StatusError == "error"

DestinationMinio == "minio"
DestinationLocal == "local"

\* what the destination holds at a key: nothing, an object that was there
\* before the tool ran, a file that os.Create truncated and io.Copy did not
\* finish, or a copy of the version ver of the source object
Absent == [state |-> "absent", ver |-> 0]
Foreign == [state |-> "foreign", ver |-> 0]
Truncated == [state |-> "truncated", ver |-> 0]
Copied(v) == [state |-> "copied", ver |-> v]

\* the messages syncFile wraps its failures in
ErrUpdateStatus == "failed to update file status"
ErrCheckExists == "failed to check file existence"
ErrGetSource == "failed to get source object"
ErrCopyFile == "failed to copy file"
\* the unwrapped failure of the catalog store
ErrDatabase == "database error"

VARIABLES
  destType,    \* Service.destType
  source,      \* source bucket: version of each key, 0 when absent
  dest,        \* destination: what each key holds, Absent when nothing
  catalog,     \* table file_entries, in insertion order (ID = position)
  op,          \* "idle", "reconcile" or "run"
  cancelled,   \* ctx.Done() of the operation in progress is closed
  opResult,    \* what the last finished operation returned
  listing,     \* UpdateSourceFileList: the objects ListFiles yields
  idx,         \* UpdateSourceFileList: objects received so far
  files,       \* SyncFiles: IDs returned by GetPendingFiles
  nextFile,    \* SyncFiles: position of the dispatcher in files
  dispatcher,  \* SyncFiles: "off", "sending", "closed" or "aborted"
  workers,     \* SyncFiles: the worker count of the run
  wpc,         \* position of each worker goroutine
  wfile,       \* ID of the entry each worker holds
  werr,        \* the error syncFile returned to each worker
  errorChan,   \* number of errors buffered in errorChan
  hist,        \* observations of the runs, for the properties
  retry,       \* MinioClient.withRetry: the call in progress or the last one
  lister,      \* ListFiles: its goroutine, its two channels and their reader
  report,      \* what the last query of the catalog returned
  pool         \* StartSync and the SyncFiles that polls: goroutines and channels

\* the variables of the synchronization engine
engine == <<destType, source, dest, catalog, op, cancelled, opResult, listing,
            idx, files, nextFile, dispatcher, workers, wpc, wfile, werr,
            errorChan, hist>>

vars == <<engine, retry, lister, report, pool>>


\* ------------------------------------------------------- transport: list
\* what ListFiles sends for key p
FileInfo(p) ==
  [Path |-> p, Size |-> source[p] * 10, ETag |-> source[p],
   LastModified |-> source[p]]

\* a key that ends in the separator "/": S3 and MinIO keep such a key as
\* an object of its own, and a recursive ListObjects returns it with the
\* others.  Key 1 of the model stands for one
IsDirectoryMarker(path) == path = 1

RECURSIVE ListFrom(_)
\* the keys from p on that the bucket holds, in key order
ListFrom(p) ==
  IF p > MaxPaths THEN <<>>
  ELSE IF source[p] > 0 THEN <<FileInfo(p)>> \o ListFrom(p + 1)
       ELSE ListFrom(p + 1)

ListFiles == ListFrom(1)

\* -------------------------------------------------------------- catalog
\* a lookup that finds no row
GetFileByPathMiss(cat, path) == 0

\* Database.GetFileByPath: the ID of the row of the path, 0 for nil
GetFileByPath(cat, path) ==
  LET hits == {i \in 1..Len(cat) : cat[i].Path = path} IN
  IF hits = {} THEN 0 ELSE CHOOSE i \in hits : \A j \in hits : i <= j

\* Database.InsertFileEntry: a new row, its ID assigned by AUTOINCREMENT
InsertFileEntry(cat, file, status) ==
  Append(cat, [ID |-> Len(cat) + 1, Path |-> file.Path, Size |-> file.Size,
               ETag |-> file.ETag, LastModified |-> file.LastModified,
               Status |-> status, ErrorMessage |-> ""])

\* an UPDATE that writes error_message only when it is given one
UpdateFileStatusKeepsMessage(cat, id, status, errorMessage) ==
  [cat EXCEPT ![id].Status = status,
              ![id].ErrorMessage = IF errorMessage = "" THEN @ ELSE errorMessage]

\* Database.UpdateFileStatus: SET status, error_message WHERE id
UpdateFileStatus(cat, id, status, errorMessage) ==
  [cat EXCEPT ![id].Status = status, ![id].ErrorMessage = errorMessage]

\* GetPendingFiles selecting the pending entries only
PendingStatusesNoError == {StatusPending}

\* the statuses GetPendingFiles selects
PendingStatuses == {StatusPending, StatusError}

RECURSIVE PendingFrom(_, _)
PendingFrom(cat, i) ==
  IF i > Len(cat) THEN <<>>
  ELSE IF cat[i].Status \in PendingStatuses THEN <<i>> \o PendingFrom(cat, i + 1)
       ELSE PendingFrom(cat, i + 1)

\* Database.GetPendingFiles(project, 0): ORDER BY created_at ASC, no LIMIT
GetPendingFiles(cat) == PendingFrom(cat, 1)

\* ------------------------------------------------------ transport: retry
maxRetries == 3

\* An error value is the chain of its layers, outermost first.  The layers:
\*   "timeout"   a net.Error whose Timeout() is true
\*   "refused"   a net.Error whose Timeout() is false
\*   "deadline"  context.DeadlineExceeded
\*   "canceled"  context.Canceled
\*   "notfound"  a minio.ErrorResponse
\*   "url"       a *url.Error around the rest of the chain
\*   "wrap"      the value of fmt.Errorf("...: %w", rest of the chain)
NoError == <<>>

\* what a call of the object store can return as its error
StoreErrors ==
  {<<"timeout">>, <<"refused">>, <<"notfound">>, <<"deadline">>,
   <<"url", "timeout">>, <<"url", "refused">>, <<"url", "deadline">>}

\* fmt.Errorf with %w
Wrap(err) == <<"wrap">> \o err

\* the dynamic type of err has the methods of net.Error
IsNetError(err) ==
  err # NoError /\ Head(err) \in {"timeout", "refused", "deadline", "url"}

RECURSIVE Timeout(_)
\* err.Timeout(): url.Error asks the error it holds, if that has the method
Timeout(err) ==
  IF err = NoError THEN FALSE
  ELSE IF Head(err) \in {"timeout", "deadline"} THEN TRUE
  ELSE IF Head(err) = "url" THEN Timeout(Tail(err))
  ELSE FALSE

\* part_001:51-79: type assertions on err itself, never on what it wraps
isRetryableError(err) ==
  IF err = NoError THEN FALSE
  ELSE IF IsNetError(err) /\ Timeout(err) THEN TRUE
  ELSE IF Head(err) = "url"
            /\ ((IsNetError(Tail(err)) /\ Timeout(Tail(err))) \/ Timeout(err))
       THEN TRUE
  ELSE IF Head(err) = "url" /\ Tail(err) = <<"deadline">> THEN TRUE
  ELSE FALSE

\* the operations the client passes to withRetry
Operations == {"ListObjects", "CopyFile", "GetObject", "StatObject"}

\* what fn, the closure handed to withRetry, can return.  GetObject and
\* StatObject return the error of the store as it is; ListFiles wraps
\* object.Err and returns ctx.Err() as it is; CopyFile wraps the errors of
\* its get and stat steps, which come out of their own withRetry, and
\* returns the error of the upload as it is
FnResults(operation) ==
  {NoError} \cup
  CASE operation = "ListObjects" ->
         {Wrap(e) : e \in StoreErrors} \cup {<<"canceled">>, <<"deadline">>}
    [] operation = "CopyFile" ->
         {Wrap(e) : e \in StoreErrors} \cup {Wrap(Wrap(e)) : e \in StoreErrors}
           \cup StoreErrors
    [] OTHER -> StoreErrors

AllFnResults == UNION {FnResults(operation) : operation \in Operations}

NoCall ==
  [pc |-> "idle",          \* "idle", "call", "sleep" or "done"
   operation |-> "",
   attempt |-> 0,          \* the loop variable
   lastErr |-> NoError,
   sleeps |-> 0,           \* time.Sleep(retryInterval) so far
   trace |-> <<>>,         \* what each call of fn returned
   result |-> NoError,     \* what withRetry returned
   size |-> 0,             \* CopyFile: objectInfo.Size of this attempt
   transfer |-> "none"]    \* CopyFile: the upload this attempt has chosen

\* part_001:164, the size above which CopyFile takes the composed copy
ComposeThreshold == 64 * 1024 * 1024

\* the sizes StatObject reports: empty, and the three around the threshold
ObjectSizes ==
  {0, ComposeThreshold - 1, ComposeThreshold, ComposeThreshold + 1}

\* part_001:164-189: ComposeObject for an object larger than the threshold,
\* PutObject of the stream otherwise
Transfer(size) ==
  IF size > ComposeThreshold THEN "ComposeObject" ELSE "PutObject"

\* a loop that makes one attempt more
MoreAttemptsOffByOne(attempt) == attempt <= maxRetries

\* part_001:83, the condition of the loop
MoreAttempts(attempt) == attempt < maxRetries

\* withRetry(operation, fn) is called
WithRetry(operation) ==
  /\ retry.pc \in {"idle", "done"}
  /\ retry' = [NoCall EXCEPT !.pc = "call", !.operation = operation]
  /\ UNCHANGED <<engine, lister, report, pool>>

\* attempt > 0: log and time.Sleep(retryInterval)
RetrySleep ==
  /\ retry.pc = "sleep"
  /\ retry' = [retry EXCEPT !.pc = "call", !.sleeps = @ + 1,
                            !.size = 0, !.transfer = "none"]
  /\ UNCHANGED <<engine, lister, report, pool>>

\* part_001:151-189, inside the closure of CopyFile: the get and the stat
\* have succeeded, the stat has reported size, and the upload is chosen
CopyFileStat(size) ==
  /\ retry.pc = "call"
  /\ retry.operation = "CopyFile"
  /\ retry.transfer = "none"
  /\ retry' = [retry EXCEPT !.size = size, !.transfer = Transfer(size)]
  /\ UNCHANGED <<engine, lister, report, pool>>

\* a loop that goes round again whatever the error is
RetriesAnyError(err, attempt) == MoreAttempts(attempt + 1)

\* part_001:89-95: after a failed attempt the loop goes round again when the
\* error is retryable and attempt++ leaves the loop condition true
Retries(err, attempt) == isRetryableError(err) /\ MoreAttempts(attempt + 1)

\* fn() returns err: return nil, return err, or go round the loop; when the
\* loop is over return the last error wrapped
RetryCall(err) ==
  /\ retry.pc = "call"
  /\ err \in FnResults(retry.operation)
  /\ retry.operation = "CopyFile" =>
       \* before the upload the closure returns the wrapped error of the get
       \* or the stat, after it the result of the upload
       (retry.transfer = "none" <=> (err # NoError /\ Head(err) = "wrap"))
  /\ retry' =
       IF err = NoError
       THEN [retry EXCEPT !.pc = "done", !.result = NoError,
                          !.trace = Append(@, err)]
       ELSE IF Retries(err, retry.attempt)
       THEN [retry EXCEPT !.pc = "sleep", !.attempt = @ + 1, !.lastErr = err,
                          !.trace = Append(@, err)]
       ELSE IF isRetryableError(err)
       THEN [retry EXCEPT !.pc = "done", !.attempt = @ + 1, !.lastErr = err,
                          !.result = Wrap(err), !.trace = Append(@, err)]
       ELSE [retry EXCEPT !.pc = "done", !.result = err, !.lastErr = err,
                          !.trace = Append(@, err)]
  /\ UNCHANGED <<engine, lister, report, pool>>

\* --------------------------------------------- transport: the two channels
\* src/minio/client.go:47-75.  ListFiles starts a goroutine that reads
\* objectCh, sends each object on the unbuffered filesChan, puts the first
\* object.Err into errorChan (capacity 1) and returns; its deferred calls
\* close errorChan and then filesChan
NoLister ==
  [pc |-> "off",       \* the goroutine: "off", "next", "send", "return",
                       \* "closedErr" (errorChan closed) or "done" (both)
   objects |-> <<>>,   \* what objectCh yields when nothing fails
   pos |-> 0,          \* objects the reader has received
   errBuf |-> "",      \* the error buffered in errorChan, "" when none
   failed |-> FALSE,   \* objectCh has yielded an object.Err
   rpc |-> "off",      \* UpdateSourceFileList: "off", "select" or "process"
   before |-> <<>>]    \* the catalog when UpdateSourceFileList was called

\* a reader that takes the end of the enumeration for success
ListResultNil(err) == "nil"

\* service.go:88-92, what UpdateSourceFileList returns for a value received
\* from errorChan
ListResult(err) == IF err # "" THEN "error" ELSE "nil"

\* ----------------------------------------------------------------- queries
\* The engine above runs for one project and never reads a timestamp, so
\* its rows leave out project_name, created_at and updated_at.  The queries
\* read them: they are defined on rows with every column of file_entries.
ProjectNames == {"project", "other"}

\* the values of time.Now() the rows can carry: the clock ticks at every
\* INSERT and once more after the last
Times == 1..(MaxPaths + 1)

\* the limits the queries are called with: none, one row, every row
Limits == {0, 1, MaxPaths}

\* the statuses the engine writes
WrittenStatuses ==
  {StatusPending, StatusCopying, StatusExists, StatusCompleted, StatusError}

\* the row with AUTOINCREMENT id i: a message goes with status error only
FileEntry(i, projectName, status, createdAt, updatedAt) ==
  [ID |-> i, ProjectName |-> projectName, Path |-> i, Size |-> i * 10,
   ETag |-> 1, LastModified |-> 1, Status |-> status,
   ErrorMessage |-> IF status = StatusError THEN ErrCopyFile ELSE "",
   CreatedAt |-> createdAt, UpdatedAt |-> updatedAt]

\* updated_at of n rows.  Row i is inserted at time i, so created_at
\* follows the ids; an UPDATE of a row is not before its INSERT
Clocks(n) == {u \in [1..n -> Times] : \A i \in 1..n : i <= u[i]}

\* the tables of n rows the INSERTs and UPDATEs can leave
TablesOf(n) ==
  {[i \in 1..n |-> FileEntry(i, pr[i], st[i], i, u[i])] :
     pr \in [1..n -> ProjectNames], st \in [1..n -> WrittenStatuses],
     u \in Clocks(n)}

\* ORDER BY status compares the strings
StatusRank(status) ==
  CASE status = StatusCompleted -> 1
    [] status = StatusCopying -> 2
    [] status = StatusError -> 3
    [] status = StatusExists -> 4
    [] status = StatusNotFound -> 5
    [] status = StatusPending -> 6

StatusesInOrder ==
  <<StatusCompleted, StatusCopying, StatusError, StatusExists,
    StatusNotFound, StatusPending>>

RECURSIVE SumSize(_, _)
\* SUM(size) over the rows ids
SumSize(cat, ids) ==
  IF ids = {} THEN 0
  ELSE LET i == CHOOSE j \in ids : TRUE IN
       cat[i].Size + SumSize(cat, ids \ {i})

\* a WHERE clause without the project
InAnyProject(row, projectName) == TRUE

\* WHERE project_name = ?
InProject(row, projectName) == row.ProjectName = projectName

RECURSIVE CountsFrom(_, _, _)
\* the groups of GROUP BY status from position k of the order on
CountsFrom(cat, projectName, k) ==
  IF k > Len(StatusesInOrder) THEN <<>>
  ELSE LET group == {i \in 1..Len(cat) :
                       /\ InProject(cat[i], projectName)
                       /\ cat[i].Status = StatusesInOrder[k]}
       IN (IF group = {} THEN <<>>
           ELSE <<[Status |-> StatusesInOrder[k],
                   Count |-> Cardinality(group),
                   Size |-> SumSize(cat, group)]>>)
          \o CountsFrom(cat, projectName, k + 1)

\* Database.GetStatusCounts: SELECT status, COUNT(*), SUM(size) ... WHERE
\* project_name = ? GROUP BY status ORDER BY status
GetStatusCounts(cat, projectName) == CountsFrom(cat, projectName, 1)

\* the orders the rows ids can be read in; ORDER BY keeps those its
\* comparison agrees with, and SQL leaves the order of equal keys open
Orders(ids) ==
  {f \in [1..Cardinality(ids) -> ids] :
     \A a, b \in 1..Cardinality(ids) : a # b => f[a] # f[b]}

\* LIMIT n of SQLite: the first n rows, every row when n is negative
Limit(rows, n) ==
  IF n < 0 \/ n >= Len(rows) THEN rows ELSE SubSeq(rows, 1, n)

\* ORDER BY updated_at ASC
OldestUpdateFirst(a, b) == a.UpdatedAt <= b.UpdatedAt

\* ORDER BY updated_at DESC
RecentFirst(a, b) == a.UpdatedAt >= b.UpdatedAt

\* ORDER BY created_at ASC
OldestFirst(a, b) == a.CreatedAt <= b.CreatedAt

\* Database.GetRecentErrors, the results the query can give: WHERE
\* project_name = ? AND status = 'error' AND error_message IS NOT NULL
\* ORDER BY updated_at DESC LIMIT ?.  The statements write Go strings, so
\* no row has a NULL message
GetRecentErrors(cat, projectName, limit) ==
  LET ids == {i \in 1..Len(cat) : /\ InProject(cat[i], projectName)
                                  /\ cat[i].Status = StatusError}
  IN {Limit(rows, limit) :
        rows \in {f \in Orders(ids) :
                    \A a, b \in 1..Cardinality(ids) :
                      a < b => RecentFirst(cat[f[a]], cat[f[b]])}}

\* part_005:125-133, the query that always ends in LIMIT ?
LimitAlways(rows, limit) == Limit(rows, limit)

\* part_004:135-143: LIMIT ? is part of the query when limit > 0
LimitIfPositive(rows, limit) == IF limit > 0 THEN Limit(rows, limit) ELSE rows

\* Database.GetPendingFiles(projectName, limit), the results the query can
\* give: WHERE project_name = ? AND status IN ('pending', 'error') ORDER BY
\* created_at ASC
GetPendingFilesOf(cat, projectName, limit) ==
  LET ids == {i \in 1..Len(cat) : /\ InProject(cat[i], projectName)
                                  /\ cat[i].Status \in PendingStatuses}
  IN {LimitIfPositive(rows, limit) :
        rows \in {f \in Orders(ids) :
                    \A a, b \in 1..Cardinality(ids) :
                      a < b => OldestFirst(cat[f[a]], cat[f[b]])}}

\* service.go:248, the limit GetStatus passes to GetRecentErrors
RecentErrorsLimit == 10

\* part_006:195-219, the messages the workers of StartSync wrap their
\* failures in
ErrGetFile == "failed to get file"
ErrSaveFile == "failed to save file"

\* StartSync (part_006:168-268) and the SyncFiles that polls
\* (part_006:507-558) before they are called
NoPool ==
  [mode |-> "off",                        \* "off", "start" or "poll"
   n |-> 0,                               \* the worker count
   queue |-> <<>>,                        \* StartSync: IDs not yet sent
   filesChan |-> <<>>,                    \* StartSync: IDs buffered
   filesClosed |-> FALSE,                 \* StartSync: close(filesChan)
   pc |-> [w \in WorkerIds |-> "off"],    \* position of each worker
   file |-> [w \in WorkerIds |-> 0],      \* ID of the entry each one holds
   batch |-> [w \in WorkerIds |-> <<>>],  \* polling: the rest of its batch
   errorsChan |-> 0,                      \* errors buffered in errorsChan
   waiter |-> "off",                      \* StartSync: "off", "wait", "send"
   errors |-> 0,                          \* StartSync: len(errors)
   fetched |-> {},                        \* IDs GetPendingFiles returned
   held |-> {},                           \* IDs received while the destination
                                          \* held an object at their path
   asked |-> {},                          \* IDs GetObject was called for
   err |-> [i \in Paths |-> ""]]          \* the failure of each ID

NoReport ==
  [query |-> "none",    \* the query or the command that ran last
   project |-> "",
   limit |-> 0,
   counts |-> <<>>,     \* GetStatus: SyncStatus.Counts
   rows |-> <<>>,       \* the row ids returned, in the order returned
   result |-> "none"]   \* "nil" or "error"

\* a SELECT that stamps the rows it reads
SelectTouches(cat) ==
  [i \in 1..Len(cat) |-> [cat[i] EXCEPT !.UpdatedAt = MaxPaths + 1]]

\* the table after a SELECT
Select(cat) == cat

\* Service.GetStatus: GetStatusCounts, then GetRecentErrors with limit 10
GetStatus(projectName) ==
  /\ op = "idle"
  /\ \E rows \in GetRecentErrors(catalog, projectName, RecentErrorsLimit) :
       report' = [NoReport EXCEPT
                    !.query = "GetStatus", !.project = projectName,
                    !.limit = RecentErrorsLimit,
                    !.counts = GetStatusCounts(catalog, projectName),
                    !.rows = rows, !.result = "nil"]
  /\ catalog' = Select(catalog)
  /\ UNCHANGED <<retry, lister, pool, destType, source, dest, op, cancelled, opResult,
                 listing, idx, files, nextFile, dispatcher, workers, wpc,
                 wfile, werr, errorChan, hist>>

\* one of the two queries of GetStatus fails: return nil, err.  A failed
\* query leaves nothing behind, so it is not counted among the failures
GetStatusFail(projectName) ==
  /\ op = "idle"
  /\ report' = [NoReport EXCEPT !.query = "GetStatus",
                                !.project = projectName, !.result = "error"]
  /\ catalog' = Select(catalog)
  /\ UNCHANGED <<retry, lister, pool, destType, source, dest, op, cancelled, opResult,
                 listing, idx, files, nextFile, dispatcher, workers, wpc,
                 wfile, werr, errorChan, hist>>

\* Database.GetRecentErrors(projectName, limit) is called and returns
QueryRecentErrors(projectName, limit) ==
  /\ op = "idle"
  /\ \E rows \in GetRecentErrors(catalog, projectName, limit) :
       report' = [NoReport EXCEPT
                    !.query = "GetRecentErrors", !.project = projectName,
                    !.limit = limit, !.rows = rows, !.result = "nil"]
  /\ catalog' = Select(catalog)
  /\ UNCHANGED <<retry, lister, pool, destType, source, dest, op, cancelled, opResult,
                 listing, idx, files, nextFile, dispatcher, workers, wpc,
                 wfile, werr, errorChan, hist>>

\* Database.GetPendingFiles(projectName, limit) is called and returns
QueryPendingFiles(projectName, limit) ==
  /\ op = "idle"
  /\ \E rows \in GetPendingFilesOf(catalog, projectName, limit) :
       report' = [NoReport EXCEPT
                    !.query = "GetPendingFiles", !.project = projectName,
                    !.limit = limit, !.rows = rows, !.result = "nil"]
  /\ catalog' = Select(catalog)
  /\ UNCHANGED <<retry, lister, pool, destType, source, dest, op, cancelled, opResult,
                 listing, idx, files, nextFile, dispatcher, workers, wpc,
                 wfile, werr, errorChan, hist>>

\* ------------------------------------------------------------ histories
NoRun ==
  [workers |-> 0,                   \* the worker count of the run
   fetched |-> {},                  \* IDs GetPendingFiles returned
   recopy |-> {},                   \* fetched IDs whose copy is stale
   retried |-> {},                  \* fetched IDs whose status was error
   held |-> {},                     \* IDs probed while the destination held
                                    \* an object at their path
   found |-> {},                    \* IDs whose probe reported the object
   asked |-> {},                    \* IDs GetObject or CopyFile was called for
   err |-> [i \in Paths |-> ""],    \* the error syncFile returned for each ID
   handed |-> [i \in Paths |-> 0]]  \* times each ID was sent to a worker

\* IDs whose syncFile returned an error in the run
Failed == {i \in Paths : hist.run.err[i] # ""}

HistInit ==
  [run |-> NoRun,       \* the run in progress or the last one
   faults |-> 0,        \* failures so far
   changes |-> 0,       \* overwrites of source objects so far
   last |-> "none",     \* the last event: a command that returned, or a
                        \* change of the source
   mutations |-> 0,     \* inserts and updates of the reconcile pass
   repeat |-> FALSE,    \* the pass repeats the listing of the pass before
   seen |-> {},         \* paths the import or update in progress received
   resume |-> {}]       \* IDs fetched by the run that was interrupted

Init ==
  /\ destType \in {DestinationMinio, DestinationLocal}
  /\ source = [p \in Paths |-> 1]
  /\ dest \in [Paths -> {Absent, Foreign}]
  /\ catalog = <<>>
  /\ op = "idle"
  /\ cancelled = FALSE
  /\ opResult = "none"
  /\ listing = <<>>
  /\ idx = 0
  /\ files = <<>>
  /\ nextFile = 1
  /\ dispatcher = "off"
  /\ workers = 0
  /\ wpc = [w \in WorkerIds |-> "off"]
  /\ wfile = [w \in WorkerIds |-> 0]
  /\ werr = [w \in WorkerIds |-> ""]
  /\ errorChan = 0
  /\ hist = HistInit
  /\ retry = NoCall
  /\ lister = NoLister
  /\ report = NoReport
  /\ pool = NoPool

\* ---------------------------------------------------------- environment
\* a transport call or a statement on the catalog store may fail
CanFail == hist.faults < MaxFaults
Fault(h) == [h EXCEPT !.faults = @ + 1]

\* an object is created or overwritten at the source
SourceChange(p) ==
  /\ op = "idle"
  /\ hist.changes < MaxChanges
  /\ source' = [source EXCEPT ![p] = source[p] + 1]
  /\ hist' = [hist EXCEPT !.last = "change", !.changes = @ + 1]
  /\ UNCHANGED <<retry, lister, report, pool, destType, dest, catalog, op, cancelled, opResult, listing,
                 idx, files, nextFile, dispatcher, workers, wpc, wfile, werr,
                 errorChan>>

\* an object is removed from the source bucket
SourceDelete(p) ==
  /\ op = "idle"
  /\ hist.changes < MaxChanges
  /\ source[p] > 0
  /\ source' = [source EXCEPT ![p] = 0]
  /\ hist' = [hist EXCEPT !.last = "change", !.changes = @ + 1]
  /\ UNCHANGED <<retry, lister, report, pool, destType, dest, catalog, op, cancelled,
                 opResult, listing, idx, files, nextFile, dispatcher, workers,
                 wpc, wfile, werr, errorChan>>

\* the cancellation signal of the operation in progress fires
Cancel ==
  /\ op # "idle"
  /\ ~cancelled
  /\ cancelled' = TRUE
  /\ UNCHANGED <<retry, lister, report, pool, destType, source, dest, catalog, op, opResult, listing, idx,
                 files, nextFile, dispatcher, workers, wpc, wfile, werr,
                 errorChan, hist>>

\* ------------------------------------------------------------ reconciler
\* a pass that marks the entries of the other paths as gone
ReconcileObjectPrune(cat, file) ==
  [i \in 1..Len(cat) |->
     IF cat[i].Path # file.Path THEN [cat[i] EXCEPT !.Status = StatusNotFound]
     ELSE cat[i]]

\* a test that resets every entry the listing names
ETagChangedAlways(existingFile, file) == TRUE

\* service.go:118, the test that resets an entry
ETagChanged(existingFile, file) == existingFile.ETag # file.ETag

\* service.go:99-123, what one received object does to the catalog
ReconcileObject(cat, file) ==
  LET existingFile == GetFileByPath(cat, file.Path) IN
  IF existingFile = 0 THEN InsertFileEntry(cat, file, StatusPending)
  ELSE IF ETagChanged(cat[existingFile], file)
       THEN UpdateFileStatus(cat, existingFile, StatusPending, "")
       ELSE cat

\* UpdateSourceFileList of another process, on the same catalog file, takes
\* the object of path p from its listing while a run is in progress
ReconcileDuringRun(p) ==
  /\ op = "run"
  /\ source[p] > 0
  /\ catalog' = ReconcileObject(catalog, FileInfo(p))
  /\ catalog' # catalog
  /\ UNCHANGED <<retry, lister, report, pool, destType, source, dest, op, cancelled, opResult, listing,
                 idx, files, nextFile, dispatcher, workers, wpc, wfile, werr,
                 errorChan, hist>>

\* UpdateSourceFileList is called: ListFiles starts to enumerate the bucket
ReconcileStart ==
  /\ op = "idle"
  /\ op' = "reconcile"
  /\ cancelled' = FALSE
  /\ opResult' = "none"
  /\ listing' = ListFiles
  /\ idx' = 0
  /\ hist' = [hist EXCEPT !.mutations = 0, !.run = NoRun, !.last = "none",
                          !.repeat = (hist.last = "reconcile" /\ opResult = "nil")]
  /\ UNCHANGED <<retry, lister, report, pool, destType, source, dest, catalog, files, nextFile, dispatcher,
                 workers, wpc, wfile, werr, errorChan>>

\* case file, ok := <-filesChan: look the path up, insert or reset
ReconcileFile ==
  /\ op = "reconcile"
  /\ idx < Len(listing)
  /\ LET file == listing[idx + 1]
         existingFile == GetFileByPath(catalog, file.Path)
         changed == existingFile # 0 /\ ETagChanged(catalog[existingFile], file)
     IN /\ catalog' = ReconcileObject(catalog, file)
        /\ hist' = [hist EXCEPT
                      !.mutations = IF existingFile = 0 \/ changed THEN @ + 1 ELSE @]
  /\ idx' = idx + 1
  /\ UNCHANGED <<retry, lister, report, pool, destType, source, dest, op, cancelled, opResult, listing,
                 files, nextFile, dispatcher, workers, wpc, wfile, werr,
                 errorChan>>

\* case err := <-errorChan with err = nil: the enumeration is over
ReconcileDone ==
  /\ op = "reconcile"
  /\ idx = Len(listing)
  /\ op' = "idle"
  /\ opResult' = "nil"
  /\ hist' = [hist EXCEPT !.last = "reconcile"]
  /\ listing' = <<>>
  /\ idx' = 0
  /\ UNCHANGED <<retry, lister, report, pool, destType, source, dest, catalog, cancelled,
                 files, nextFile, dispatcher, workers, wpc, wfile, werr,
                 errorChan>>

\* case err := <-errorChan with err # nil: the enumeration failed
ReconcileListError ==
  /\ op = "reconcile"
  /\ idx < Len(listing)
  /\ CanFail
  /\ op' = "idle"
  /\ opResult' = "error"
  /\ hist' = [Fault(hist) EXCEPT !.last = "reconcile"]
  /\ listing' = <<>>
  /\ idx' = 0
  /\ UNCHANGED <<retry, lister, report, pool, destType, source, dest, catalog, cancelled,
                 files, nextFile, dispatcher, workers, wpc, wfile, werr,
                 errorChan>>

\* case <-ctx.Done(): return ctx.Err()
ReconcileCancelled ==
  /\ op = "reconcile"
  /\ cancelled
  /\ op' = "idle"
  /\ opResult' = "error"
  /\ hist' = [hist EXCEPT !.last = "reconcile"]
  /\ listing' = <<>>
  /\ idx' = 0
  /\ UNCHANGED <<retry, lister, report, pool, destType, source, dest, catalog, cancelled,
                 files, nextFile, dispatcher, workers, wpc, wfile, werr,
                 errorChan>>

\* ----------------------------------------- reconciler, channel by channel
\* UpdateSourceFileList is called: ListFiles makes the channels, starts the
\* goroutine and returns; the caller enters its select loop
ListStart ==
  /\ op = "idle"
  /\ op' = "list"
  /\ cancelled' = FALSE
  /\ opResult' = "none"
  /\ lister' = [NoLister EXCEPT !.pc = "next", !.objects = ListFiles,
                                !.rpc = "select", !.before = catalog]
  /\ hist' = [hist EXCEPT !.mutations = 0, !.run = NoRun, !.repeat = FALSE,
                          !.last = "none"]
  /\ UNCHANGED <<retry, report, pool, destType, source, dest, catalog, listing, idx,
                 files, nextFile, dispatcher, workers, wpc, wfile, werr,
                 errorChan>>

\* for object := range objectCh yields an object without Err: the goroutine
\* offers it on filesChan
ListerYield ==
  /\ lister.pc = "next"
  /\ lister.pos < Len(lister.objects)
  /\ lister' = [lister EXCEPT !.pc = "send"]
  /\ UNCHANGED <<engine, retry, report, pool>>

\* objectCh yields an object with Err: errorChan <- object.Err; return
ListerError ==
  /\ lister.pc = "next"
  /\ CanFail
  /\ lister' = [lister EXCEPT !.pc = "return", !.errBuf = "err",
                              !.failed = TRUE]
  /\ hist' = Fault(hist)
  /\ UNCHANGED <<retry, report, pool, destType, source, dest, catalog, op, cancelled,
                 opResult, listing, idx, files, nextFile, dispatcher, workers,
                 wpc, wfile, werr, errorChan>>

\* objectCh is closed after the last object: the loop ends
ListerEnd ==
  /\ lister.pc = "next"
  /\ lister.pos = Len(lister.objects)
  /\ lister' = [lister EXCEPT !.pc = "return"]
  /\ UNCHANGED <<engine, retry, report, pool>>

\* defer close(errorChan), the deferred call that runs first
ListerCloseErrorChan ==
  /\ lister.pc = "return"
  /\ lister' = [lister EXCEPT !.pc = "closedErr"]
  /\ UNCHANGED <<engine, retry, report, pool>>

\* defer close(filesChan)
ListerCloseFilesChan ==
  /\ lister.pc = "closedErr"
  /\ lister' = [lister EXCEPT !.pc = "done"]
  /\ UNCHANGED <<engine, retry, report, pool>>

\* case file, ok := <-filesChan with ok: the send of the goroutine and the
\* receive of the select meet.  With ok false (filesChan closed) the loop
\* continues and nothing changes
ReaderFile ==
  /\ op = "list"
  /\ lister.rpc = "select"
  /\ lister.pc = "send"
  /\ lister' = [lister EXCEPT !.pc = "next", !.pos = @ + 1, !.rpc = "process"]
  /\ UNCHANGED <<engine, retry, report, pool>>

\* service.go:99-123 for the object received
ReaderProcess ==
  /\ op = "list"
  /\ lister.rpc = "process"
  /\ catalog' = ReconcileObject(catalog, lister.objects[lister.pos])
  /\ lister' = [lister EXCEPT !.rpc = "select"]
  /\ UNCHANGED <<retry, report, pool, destType, source, dest, op, cancelled, opResult,
                 listing, idx, files, nextFile, dispatcher, workers, wpc,
                 wfile, werr, errorChan, hist>>

\* case err := <-errorChan: the buffered error if there is one, the zero
\* value once the channel is closed and empty
ReaderError ==
  /\ op = "list"
  /\ lister.rpc = "select"
  /\ lister.errBuf # "" \/ lister.pc \in {"closedErr", "done"}
  /\ op' = "idle"
  /\ opResult' = ListResult(lister.errBuf)
  /\ lister' = [lister EXCEPT !.rpc = "off", !.errBuf = ""]
  /\ hist' = [hist EXCEPT !.last = "list"]
  /\ UNCHANGED <<retry, report, pool, destType, source, dest, catalog, cancelled,
                 listing, idx, files, nextFile, dispatcher, workers, wpc,
                 wfile, werr, errorChan>>

\* ------------------------------------------------------- copy scheduler
RECURSIVE Range(_)
Range(seq) == IF seq = <<>> THEN {} ELSE {Head(seq)} \cup Range(Tail(seq))

Active == 1..workers

\* the destination holds a copy the tool made of a version of the object
\* that the source has replaced since
Stale(path) ==
  dest[path].state = "copied" /\ dest[path].ver # source[path]

\* SyncFiles with nothing pending: return nil at service.go:136
SyncNone ==
  /\ op = "idle"
  /\ GetPendingFiles(catalog) = <<>>
  /\ opResult' = "nil"
  /\ cancelled' = FALSE
  /\ hist' = [hist EXCEPT !.run = NoRun, !.last = "run",
                          !.mutations = 0, !.repeat = FALSE]
  /\ UNCHANGED <<retry, lister, report, pool, destType, source, dest, catalog, op, listing, idx, files,
                 nextFile, dispatcher, workers, wpc, wfile, werr, errorChan>>

\* SyncFiles(ctx, n): fetch the pending entries, start n workers and the
\* goroutine that sends the entries
SyncStart(n) ==
  /\ op = "idle"
  /\ GetPendingFiles(catalog) # <<>>
  /\ op' = "run"
  /\ cancelled' = FALSE
  /\ opResult' = "none"
  /\ files' = GetPendingFiles(catalog)
  /\ nextFile' = 1
  /\ dispatcher' = "sending"
  /\ workers' = n
  /\ wpc' = [w \in WorkerIds |-> IF w <= n THEN "recv" ELSE "off"]
  /\ wfile' = [w \in WorkerIds |-> 0]
  /\ werr' = [w \in WorkerIds |-> ""]
  /\ errorChan' = 0
  /\ hist' = [hist EXCEPT
                !.run = [NoRun EXCEPT
                           !.workers = n,
                           !.fetched = Range(files'),
                           !.recopy = {id \in Range(files') :
                                         Stale(catalog[id].Path)},
                           !.retried = {id \in Range(files') :
                                          catalog[id].Status = StatusError}],
                !.mutations = 0,
                !.repeat = FALSE,
                !.last = "none"]
  /\ UNCHANGED <<retry, lister, report, pool, destType, source, dest, catalog, listing, idx>>

\* a loop that sends the same entry again
NextIndexStuck(n) == n

\* for _, file := range files: the position after a send
NextIndex(n) == n + 1

\* case filesChan <- file, received by worker w in its range loop.  The
\* workers run the same code and carry no identity, so of the workers that
\* wait the one with the least index stands for whichever receives
Dispatch(w) ==
  /\ op = "run"
  /\ dispatcher = "sending"
  /\ nextFile <= Len(files)
  /\ w \in Active
  /\ wpc[w] = "recv"
  /\ \A v \in Active : wpc[v] = "recv" => w <= v
  /\ wfile' = [wfile EXCEPT ![w] = files[nextFile]]
  /\ wpc' = [wpc EXCEPT ![w] = "copying"]
  /\ nextFile' = NextIndex(nextFile)
  /\ hist' = [hist EXCEPT !.run.handed[files[nextFile]] = @ + 1]
  /\ UNCHANGED <<retry, lister, report, pool, destType, source, dest, catalog, op, cancelled, opResult,
                 listing, idx, files, dispatcher, workers, werr, errorChan>>

\* a sending goroutine that returns after the last send and leaves
\* filesChan open
DispatcherLeavesOpen ==
  /\ op = "run"
  /\ dispatcher = "sending"
  /\ nextFile > Len(files)
  /\ dispatcher' = "aborted"
  /\ UNCHANGED <<retry, lister, report, pool, destType, source, dest, catalog, op, cancelled, opResult,
                 listing, idx, files, nextFile, workers, wpc, wfile, werr,
                 errorChan, hist>>

\* close(filesChan) after the last send
DispatcherClose ==
  /\ op = "run"
  /\ dispatcher = "sending"
  /\ nextFile > Len(files)
  /\ dispatcher' = "closed"
  /\ UNCHANGED <<retry, lister, report, pool, destType, source, dest, catalog, op, cancelled, opResult,
                 listing, idx, files, nextFile, workers, wpc, wfile, werr,
                 errorChan, hist>>

\* case <-ctx.Done(): the sending goroutine returns, filesChan stays open
DispatcherAbort ==
  /\ op = "run"
  /\ dispatcher = "sending"
  /\ nextFile <= Len(files)
  /\ cancelled
  /\ dispatcher' = "aborted"
  /\ UNCHANGED <<retry, lister, report, pool, destType, source, dest, catalog, op, cancelled, opResult,
                 listing, idx, files, nextFile, workers, wpc, wfile, werr,
                 errorChan, hist>>

\* a syncFile that goes on to the write of completed after a failure
FailsIgnored(w, msg) ==
  /\ wpc' = [wpc EXCEPT ![w] = "completed"]
  /\ werr' = werr

\* syncFile returns err to the worker loop
Fails(w, msg) ==
  /\ wpc' = [wpc EXCEPT ![w] = "error"]
  /\ werr' = [werr EXCEPT ![w] = msg]

\* a syncFile that does not announce the copy
MarkCopyingSkipped(cat, id) == cat

\* a write that marks every entry waiting for a copy at once
MarkCopyingAll(cat, id) ==
  [i \in 1..Len(cat) |->
     IF cat[i].Status \in PendingStatuses
     THEN [cat[i] EXCEPT !.Status = StatusCopying, !.ErrorMessage = ""]
     ELSE cat[i]]

\* service.go:195, the first write of syncFile
MarkCopying(cat, id) == UpdateFileStatus(cat, id, StatusCopying, "")

\* syncFile: UpdateFileStatus(file.ID, StatusCopying, "")
WriteCopying(w) ==
  /\ op = "run"
  /\ w \in Active
  /\ wpc[w] = "copying"
  /\ catalog' = MarkCopying(catalog, wfile[w])
  /\ wpc' = [wpc EXCEPT ![w] = "probe"]
  /\ UNCHANGED <<retry, lister, report, pool, destType, source, dest, op, cancelled, opResult, listing, idx,
                 files, nextFile, dispatcher, workers, wfile, werr, errorChan,
                 hist>>

\* service.go:214-220, where syncFile goes after the probe
AfterProbe(exists) == IF exists THEN "exists" ELSE "get"

\* StatObject returns nil only for an object it could stat; FileExists
\* stats the final path, whatever the file holds
ProbeSees(path) ==
  IF destType = DestinationMinio THEN dest[path] # Absent /\ ~cancelled
  ELSE dest[path] # Absent

\* the entry of worker w, if the destination holds an object at its path
Holding(w) ==
  IF dest[catalog[wfile[w]].Path] # Absent THEN {wfile[w]} ELSE {}

\* syncFile: the probe of the destination answers
Probe(w) ==
  /\ op = "run"
  /\ w \in Active
  /\ wpc[w] = "probe"
  /\ LET exists == ProbeSees(catalog[wfile[w]].Path) IN
       /\ wpc' = [wpc EXCEPT ![w] = AfterProbe(exists)]
       /\ hist' = [hist EXCEPT
                     !.run.held = @ \cup Holding(w),
                     !.run.found = IF exists THEN @ \cup {wfile[w]} ELSE @]
  /\ UNCHANGED <<retry, lister, report, pool, destType, source, dest, catalog, op, cancelled, opResult,
                 listing, idx, files, nextFile, dispatcher, workers, wfile,
                 werr, errorChan>>

\* syncFile: the probe fails.  exists = err == nil makes a failed StatObject
\* an absent object; a failed FileExists makes syncFile return
ProbeFail(w) ==
  /\ op = "run"
  /\ w \in Active
  /\ wpc[w] = "probe"
  /\ CanFail
  /\ IF destType = DestinationMinio
     THEN /\ wpc' = [wpc EXCEPT ![w] = AfterProbe(FALSE)]
          /\ hist' = [Fault(hist) EXCEPT !.run.held = @ \cup Holding(w)]
          /\ UNCHANGED werr
     ELSE /\ Fails(w, ErrCheckExists)
          /\ hist' = [Fault(hist) EXCEPT !.run.held = @ \cup Holding(w),
                                         !.run.err[wfile[w]] = ErrCheckExists]
  /\ UNCHANGED <<retry, lister, report, pool, destType, source, dest, catalog, op, cancelled, opResult,
                 listing, idx, files, nextFile, dispatcher, workers, wfile,
                 errorChan>>

\* syncFile: UpdateFileStatus(file.ID, StatusExists, "") and return nil
WriteExists(w) ==
  /\ op = "run"
  /\ w \in Active
  /\ wpc[w] = "exists"
  /\ catalog' = UpdateFileStatus(catalog, wfile[w], StatusExists, "")
  /\ wpc' = [wpc EXCEPT ![w] = "recv"]
  /\ wfile' = [wfile EXCEPT ![w] = 0]
  /\ UNCHANGED <<retry, lister, report, pool, destType, source, dest, op, cancelled, opResult, listing, idx,
                 files, nextFile, dispatcher, workers, werr, errorChan,
                 hist>>

\* syncFile: sourceClient.GetObject returns the object
GetObject(w) ==
  /\ op = "run"
  /\ w \in Active
  /\ wpc[w] = "get"
  /\ wpc' = [wpc EXCEPT ![w] = "copy"]
  /\ hist' = [hist EXCEPT !.run.asked = @ \cup {wfile[w]}]
  /\ UNCHANGED <<retry, lister, report, pool, destType, source, dest, catalog, op, cancelled, opResult,
                 listing, idx, files, nextFile, dispatcher, workers, wfile,
                 werr, errorChan>>

\* syncFile: sourceClient.GetObject returns an error
GetObjectFail(w) ==
  /\ op = "run"
  /\ w \in Active
  /\ wpc[w] = "get"
  /\ CanFail
  /\ Fails(w, ErrGetSource)
  /\ hist' = [Fault(hist) EXCEPT !.run.asked = @ \cup {wfile[w]},
                          !.run.err[wfile[w]] = ErrGetSource]
  /\ UNCHANGED <<retry, lister, report, pool, destType, source, dest, catalog, op, cancelled, opResult,
                 listing, idx, files, nextFile, dispatcher, workers, wfile,
                 errorChan>>

\* syncFile: CopyFile or SaveFile writes the object the source holds
Copy(w) ==
  /\ op = "run"
  /\ w \in Active
  /\ wpc[w] = "copy"
  /\ ~cancelled
  /\ LET path == catalog[wfile[w]].Path IN
       /\ source[path] > 0
       /\ dest' = [dest EXCEPT ![path] = Copied(source[path])]
  /\ wpc' = [wpc EXCEPT ![w] = "completed"]
  /\ UNCHANGED <<retry, lister, report, pool, destType, source, catalog, op, cancelled, opResult, listing,
                 idx, files, nextFile, dispatcher, workers, wfile, werr,
                 errorChan, hist>>

\* syncFile: CopyFile or SaveFile fails.  PutObject leaves the destination
\* as it was; SaveFile fails before os.Create, or in io.Copy after
\* os.Create truncated the final path.  GetObject of minio-go returns an
\* object without asking the server, so an object that is gone from the
\* source fails here, at the first read
CopyFail(w) ==
  /\ op = "run"
  /\ w \in Active
  /\ wpc[w] = "copy"
  /\ cancelled \/ CanFail \/ source[catalog[wfile[w]].Path] = 0
  /\ LET path == catalog[wfile[w]].Path IN
       \/ dest' = dest
       \/ /\ destType = DestinationLocal
          /\ dest' = [dest EXCEPT ![path] = Truncated]
  /\ Fails(w, ErrCopyFile)
  /\ hist' = [(IF cancelled \/ source[catalog[wfile[w]].Path] = 0
               THEN hist ELSE Fault(hist)) EXCEPT
                !.run.err[wfile[w]] = ErrCopyFile]
  /\ UNCHANGED <<retry, lister, report, pool, destType, source, catalog, op, cancelled, opResult, listing,
                 idx, files, nextFile, dispatcher, workers, wfile, errorChan>>

\* syncFile: UpdateFileStatus(file.ID, StatusCompleted, "") and return nil
WriteCompleted(w) ==
  /\ op = "run"
  /\ w \in Active
  /\ wpc[w] = "completed"
  /\ catalog' = UpdateFileStatus(catalog, wfile[w], StatusCompleted, "")
  /\ wpc' = [wpc EXCEPT ![w] = "recv"]
  /\ wfile' = [wfile EXCEPT ![w] = 0]
  /\ UNCHANGED <<retry, lister, report, pool, destType, source, dest, op, cancelled, opResult, listing, idx,
                 files, nextFile, dispatcher, workers, werr, errorChan,
                 hist>>

\* the same select on an unbuffered channel nobody receives from yet
ErrorChanSendUnbuffered(n, cap) == n

\* select { case errorChan <- err: default: } on a channel of capacity cap
ErrorChanSend(n, cap) == IF n < cap THEN n + 1 ELSE n

\* a worker loop that tells a vanished source object from other failures
FailureStatusNotFound(msg) ==
  IF msg = ErrCopyFile THEN StatusNotFound ELSE StatusError

\* service.go:155, the status the worker loop records for a failed syncFile
FailureStatus(msg) == StatusError

\* worker loop, service.go:153-164: record the error on the entry and
\* offer it to errorChan
RecordError(w) ==
  /\ op = "run"
  /\ w \in Active
  /\ wpc[w] = "error"
  /\ catalog' = UpdateFileStatus(catalog, wfile[w], FailureStatus(werr[w]),
                                 werr[w])
  /\ errorChan' = ErrorChanSend(errorChan, workers)
  /\ wpc' = [wpc EXCEPT ![w] = "recv"]
  /\ wfile' = [wfile EXCEPT ![w] = 0]
  /\ werr' = [werr EXCEPT ![w] = ""]
  /\ UNCHANGED <<retry, lister, report, pool, destType, source, dest, op, cancelled,
                 opResult, listing, idx, files, nextFile, dispatcher, workers,
                 hist>>

\* for file := range filesChan ends when the channel is closed
WorkerExit(w) ==
  /\ op = "run"
  /\ w \in Active
  /\ wpc[w] = "recv"
  /\ dispatcher = "closed"
  /\ wpc' = [wpc EXCEPT ![w] = "exit"]
  /\ UNCHANGED <<retry, lister, report, pool, destType, source, dest, catalog, op, cancelled, opResult,
                 listing, idx, files, nextFile, dispatcher, workers, wfile,
                 werr, errorChan, hist>>

\* a SyncFiles that does not look at errorChan
SyncResultIgnored(n) == "nil"

\* service.go:185-190, the result SyncFiles reads off errorChan
SyncResult(n) == IF n > 0 THEN "error" ELSE "nil"

\* wg.Wait() returns and SyncFiles returns
SyncReturn ==
  /\ op = "run"
  /\ \A w \in Active : wpc[w] = "exit"
  /\ op' = "idle"
  /\ opResult' = SyncResult(errorChan)
  /\ files' = <<>>
  /\ nextFile' = 1
  /\ dispatcher' = "off"
  /\ workers' = 0
  /\ wpc' = [w \in WorkerIds |-> "off"]
  /\ wfile' = [w \in WorkerIds |-> 0]
  /\ errorChan' = 0
  /\ hist' = [hist EXCEPT !.last = "run"]
  /\ UNCHANGED <<retry, lister, report, pool, destType, source, dest, catalog, cancelled, listing, idx, werr>>

\* --------------------------------------------------- catalog store errors
\* syncFile: the write of copying fails, service.go:195-197
WriteCopyingFail(w) ==
  /\ op = "run"
  /\ w \in Active
  /\ wpc[w] = "copying"
  /\ CanFail
  /\ Fails(w, ErrUpdateStatus)
  /\ hist' = [Fault(hist) EXCEPT !.run.err[wfile[w]] = ErrUpdateStatus]
  /\ UNCHANGED <<retry, lister, report, pool, destType, source, dest, catalog, op, cancelled, opResult,
                 listing, idx, files, nextFile, dispatcher, workers, wfile,
                 errorChan>>

\* syncFile: the write of exists fails and its error is returned
WriteExistsFail(w) ==
  /\ op = "run"
  /\ w \in Active
  /\ wpc[w] = "exists"
  /\ CanFail
  /\ Fails(w, ErrDatabase)
  /\ hist' = [Fault(hist) EXCEPT !.run.err[wfile[w]] = ErrDatabase]
  /\ UNCHANGED <<retry, lister, report, pool, destType, source, dest, catalog, op, cancelled, opResult,
                 listing, idx, files, nextFile, dispatcher, workers, wfile,
                 errorChan>>

\* syncFile: the write of completed fails and its error is returned
WriteCompletedFail(w) ==
  /\ op = "run"
  /\ w \in Active
  /\ wpc[w] = "completed"
  /\ CanFail
  /\ Fails(w, ErrDatabase)
  /\ hist' = [Fault(hist) EXCEPT !.run.err[wfile[w]] = ErrDatabase]
  /\ UNCHANGED <<retry, lister, report, pool, destType, source, dest, catalog, op, cancelled, opResult,
                 listing, idx, files, nextFile, dispatcher, workers, wfile,
                 errorChan>>

\* worker loop: the write of error fails and is only logged; the error is
\* still offered to errorChan
RecordErrorFail(w) ==
  /\ op = "run"
  /\ w \in Active
  /\ wpc[w] = "error"
  /\ CanFail
  /\ errorChan' = ErrorChanSend(errorChan, workers)
  /\ wpc' = [wpc EXCEPT ![w] = "recv"]
  /\ wfile' = [wfile EXCEPT ![w] = 0]
  /\ werr' = [werr EXCEPT ![w] = ""]
  /\ hist' = Fault(hist)
  /\ UNCHANGED <<retry, lister, report, pool, destType, source, dest, catalog, op, cancelled, opResult,
                 listing, idx, files, nextFile, dispatcher, workers>>

\* SyncFiles: GetPendingFiles fails, service.go:131-133
SyncStartFail ==
  /\ op = "idle"
  /\ CanFail
  /\ opResult' = "error"
  /\ cancelled' = FALSE
  /\ hist' = [Fault(hist) EXCEPT !.run = NoRun, !.last = "run",
                          !.mutations = 0, !.repeat = FALSE]
  /\ UNCHANGED <<retry, lister, report, pool, destType, source, dest, catalog, op, listing, idx, files,
                 nextFile, dispatcher, workers, wpc, wfile, werr, errorChan>>

\* UpdateSourceFileList: GetFileByPath, InsertFileEntry or UpdateFileStatus
\* fails for the received object, service.go:101-122
ReconcileFileFail ==
  /\ op = "reconcile"
  /\ idx < Len(listing)
  /\ CanFail
  /\ op' = "idle"
  /\ opResult' = "error"
  /\ hist' = [Fault(hist) EXCEPT !.last = "reconcile"]
  /\ listing' = <<>>
  /\ idx' = 0
  /\ UNCHANGED <<retry, lister, report, pool, destType, source, dest, catalog, cancelled,
                 files, nextFile, dispatcher, workers, wpc, wfile, werr,
                 errorChan>>

\* ------------------------------------------------- import and source list
\* the file records an import feed can hold for the keys of the model: the
\* feed is a file somebody wrote, so a record describes the object the
\* bucket holds or another version of it
MCListEntries ==
  UNION {{[Key |-> p, Size |-> v * 10, ETag |-> v, LastModified |-> v] :
            v \in {source[p], source[p] + 1}} : p \in Paths}

\* the records of any version the model has room for
AllMCListEntries ==
  {[Key |-> p, Size |-> v * 10, ETag |-> v, LastModified |-> v] :
     p \in Paths, v \in 1..(MaxVer + 1)}

\* an import that overwrites the entry of a path it finds
ImportRecordUpsert(cat, entry) ==
  LET exists == GetFileByPath(cat, entry.Key) IN
  IF exists = 0
  THEN InsertFileEntry(cat, [Path |-> entry.Key, Size |-> entry.Size,
                             ETag |-> entry.ETag,
                             LastModified |-> entry.LastModified],
                       StatusPending)
  ELSE [cat EXCEPT ![exists].Size = entry.Size, ![exists].ETag = entry.ETag,
                   ![exists].Status = StatusPending]

\* part_006:336-365, what one record of the feed does to the catalog
ImportRecord(cat, entry) ==
  LET exists == GetFileByPath(cat, entry.Key) IN
  IF exists = 0
  THEN InsertFileEntry(cat, [Path |-> entry.Key, Size |-> entry.Size,
                             ETag |-> entry.ETag,
                             LastModified |-> entry.LastModified],
                       StatusPending)
  ELSE cat

\* ImportFileList is called and has read the feed into entries
ImportStart ==
  /\ op = "idle"
  /\ op' = "import"
  /\ cancelled' = FALSE
  /\ opResult' = "none"
  /\ listing' = <<>>
  /\ idx' = 0
  /\ hist' = [hist EXCEPT !.mutations = 0, !.run = NoRun, !.repeat = FALSE,
                          !.seen = {}, !.last = "none"]
  /\ UNCHANGED <<retry, lister, report, pool, destType, source, dest, catalog, files, nextFile, dispatcher,
                 workers, wpc, wfile, werr, errorChan>>

\* ImportFileList cannot open or read the feed and returns the error
ImportOpenFail ==
  /\ op = "import"
  /\ idx = 0
  /\ CanFail
  /\ op' = "idle"
  /\ opResult' = "error"
  /\ hist' = [Fault(hist) EXCEPT !.last = "import"]
  /\ listing' = <<>>
  /\ UNCHANGED <<retry, lister, report, pool, destType, source, dest, catalog, cancelled, idx,
                 files, nextFile, dispatcher, workers, wpc, wfile, werr,
                 errorChan>>

\* for _, entry := range entries: one record.  The loop reads the records
\* in order and none ahead, so the record is drawn when the loop reaches
\* it; listing keeps the record the loop has just processed
ImportEntry(entry) ==
  /\ op = "import"
  /\ idx < MaxFeed
  /\ entry \in MCListEntries
  /\ catalog' = ImportRecord(catalog, entry)
  /\ listing' = <<entry>>
  /\ idx' = idx + 1
  /\ hist' = [hist EXCEPT !.seen = @ \cup {entry.Key}]
  /\ UNCHANGED <<retry, lister, report, pool, destType, source, dest, op, cancelled, opResult,
                 files, nextFile, dispatcher, workers, wpc, wfile, werr,
                 errorChan>>

\* GetFileByPath or InsertFileEntry fails for the record: a warning is
\* logged and the loop continues with the next record
ImportEntryFail(entry) ==
  /\ op = "import"
  /\ idx < MaxFeed
  /\ entry \in MCListEntries
  /\ CanFail
  /\ listing' = <<entry>>
  /\ idx' = idx + 1
  /\ hist' = [Fault(hist) EXCEPT !.seen = @ \cup {entry.Key}]
  /\ UNCHANGED <<retry, lister, report, pool, destType, source, dest, catalog, op, cancelled, opResult,
                 files, nextFile, dispatcher, workers, wpc, wfile, werr,
                 errorChan>>

\* the loop is over: ImportFileList returns nil
ImportDone ==
  /\ op = "import"
  /\ op' = "idle"
  /\ opResult' = "nil"
  /\ hist' = [hist EXCEPT !.last = "import", !.seen = {}]
  /\ listing' = <<>>
  /\ idx' = 0
  /\ UNCHANGED <<retry, lister, report, pool, destType, source, dest, catalog, cancelled,
                 files, nextFile, dispatcher, workers, wpc, wfile, werr,
                 errorChan>>

\* ---------------------------------------------- import: reading the feed
\* the lines bufio.Scanner can deliver from a feed: records of mc ls --json
\* of type file or folder, lines cut short so that they are no JSON, and
\* the empty line
FeedLines ==
  {[text |-> t, Type |-> ty, Key |-> entry.Key, Size |-> entry.Size,
    ETag |-> entry.ETag, LastModified |-> entry.LastModified] :
     t \in {"record", "cut"}, ty \in {"file", "folder"},
     entry \in MCListEntries}
  \cup {[text |-> "", Type |-> "", Key |-> 0, Size |-> 0, ETag |-> 0,
         LastModified |-> 0]}

\* json.Unmarshal([]byte(line), &entry) returns an error
UnmarshalFails(line) == line.text = "cut"

\* part_006:307-325, the lines the scan loop appends to entries
Accepted(line) ==
  /\ line.text # ""
  /\ ~UnmarshalFails(line)
  /\ line.Type = "file"

\* the MCListEntry json.Unmarshal fills from a line
MCListEntry(line) ==
  [Key |-> line.Key, Size |-> line.Size, ETag |-> line.ETag,
   LastModified |-> line.LastModified]

\* ImportFileList is called and has opened the feed
ImportOpen ==
  /\ op = "idle"
  /\ op' = "scan"
  /\ cancelled' = FALSE
  /\ opResult' = "none"
  /\ listing' = <<>>
  /\ idx' = 0
  /\ hist' = [hist EXCEPT !.mutations = 0, !.run = NoRun, !.repeat = FALSE,
                          !.seen = {}, !.last = "none"]
  /\ UNCHANGED <<retry, lister, report, pool, destType, source, dest, catalog, files, nextFile, dispatcher,
                 workers, wpc, wfile, werr, errorChan>>

\* for scanner.Scan(): one line of the feed; listing holds entries and idx
\* counts the lines read
ScanLine ==
  /\ op = "scan"
  /\ idx < MaxFeed
  /\ \E line \in FeedLines :
       IF Accepted(line)
       THEN /\ listing' = Append(listing, MCListEntry(line))
            /\ hist' = [hist EXCEPT !.seen = @ \cup {line.Key}]
       ELSE /\ listing' = listing
            /\ hist' = hist
  /\ idx' = idx + 1
  /\ UNCHANGED <<retry, lister, report, pool, destType, source, dest, catalog, op, cancelled, opResult,
                 files, nextFile, dispatcher, workers, wpc, wfile, werr,
                 errorChan>>

\* the next line is longer than the buffer of the scanner: Scan returns
\* false, scanner.Err() is bufio.ErrTooLong and ImportFileList returns it
\* before the loop over entries has begun
ScanTooLong ==
  /\ op = "scan"
  /\ idx < MaxFeed
  /\ op' = "idle"
  /\ opResult' = "error"
  /\ listing' = <<>>
  /\ idx' = 0
  /\ hist' = [hist EXCEPT !.last = "import"]
  /\ UNCHANGED <<retry, lister, report, pool, destType, source, dest, catalog, cancelled,
                 files, nextFile, dispatcher, workers, wpc, wfile, werr,
                 errorChan>>

\* the feed is at its end and scanner.Err() is nil: the loop over entries
\* begins
ScanEnd ==
  /\ op = "scan"
  /\ op' = "import"
  /\ idx' = 0
  /\ UNCHANGED <<retry, lister, report, pool, destType, source, dest, catalog, cancelled, opResult,
                 listing, files, nextFile, dispatcher, workers, wpc, wfile,
                 werr, errorChan, hist>>

\* for _, entry := range entries: the next of the entries read
ImportNext ==
  /\ op = "import"
  /\ idx < Len(listing)
  /\ catalog' = ImportRecord(catalog, listing[idx + 1])
  /\ idx' = idx + 1
  /\ UNCHANGED <<retry, lister, report, pool, destType, source, dest, op, cancelled, opResult, listing,
                 files, nextFile, dispatcher, workers, wpc, wfile, werr,
                 errorChan, hist>>

\* the loop over entries is over: ImportFileList returns nil
ImportReturn ==
  /\ op = "import"
  /\ idx = Len(listing)
  /\ op' = "idle"
  /\ opResult' = "nil"
  /\ listing' = <<>>
  /\ idx' = 0
  /\ hist' = [hist EXCEPT !.last = "import"]
  /\ UNCHANGED <<retry, lister, report, pool, destType, source, dest, catalog, cancelled,
                 files, nextFile, dispatcher, workers, wpc, wfile, werr,
                 errorChan>>

\* part_006:107-149, what one listed object does to the catalog
UpdateSourceObject(cat, obj) ==
  LET exists == GetFileByPath(cat, obj.Path) IN
  IF exists # 0
  THEN IF cat[exists].ETag # obj.ETag
       THEN UpdateFileStatus(cat, exists, StatusPending, "")
       ELSE cat
  ELSE InsertFileEntry(cat, obj, StatusPending)

\* UpdateSourceList is called and ListObjects returns the objects
UpdateSourceListStart ==
  /\ op = "idle"
  /\ op' = "update"
  /\ cancelled' = FALSE
  /\ opResult' = "none"
  /\ listing' = <<>>
  /\ idx' = 0
  /\ hist' = [hist EXCEPT !.mutations = 0, !.run = NoRun, !.repeat = FALSE,
                          !.seen = {}, !.last = "none"]
  /\ UNCHANGED <<retry, lister, report, pool, destType, source, dest, catalog, files, nextFile, dispatcher,
                 workers, wpc, wfile, werr, errorChan>>

\* ListObjects fails: UpdateSourceList returns the error
UpdateSourceListFail ==
  /\ op = "update"
  /\ idx = 0
  /\ CanFail
  /\ op' = "idle"
  /\ opResult' = "error"
  /\ hist' = [Fault(hist) EXCEPT !.last = "update"]
  /\ listing' = <<>>
  /\ UNCHANGED <<retry, lister, report, pool, destType, source, dest, catalog, cancelled, idx,
                 files, nextFile, dispatcher, workers, wpc, wfile, werr,
                 errorChan>>

\* for _, obj := range objects: one object of the bucket.  ListObjects is
\* not among the sources, so its result is any sequence of objects the
\* bucket holds, drawn when the loop reaches them
UpdateSourceEntry(p) ==
  /\ op = "update"
  /\ idx < MaxFeed
  /\ source[p] > 0
  /\ catalog' = UpdateSourceObject(catalog, FileInfo(p))
  /\ listing' = <<FileInfo(p)>>
  /\ idx' = idx + 1
  /\ hist' = [hist EXCEPT !.seen = @ \cup {p}]
  /\ UNCHANGED <<retry, lister, report, pool, destType, source, dest, op, cancelled, opResult,
                 files, nextFile, dispatcher, workers, wpc, wfile, werr,
                 errorChan>>

\* GetFileByPath, UpdateFileStatus or InsertFileEntry fails for the object:
\* a warning is logged and the loop continues
UpdateSourceEntryFail(p) ==
  /\ op = "update"
  /\ idx < MaxFeed
  /\ source[p] > 0
  /\ CanFail
  /\ listing' = <<FileInfo(p)>>
  /\ idx' = idx + 1
  /\ hist' = [Fault(hist) EXCEPT !.seen = @ \cup {p}]
  /\ UNCHANGED <<retry, lister, report, pool, destType, source, dest, catalog, op, cancelled, opResult,
                 files, nextFile, dispatcher, workers, wpc, wfile, werr,
                 errorChan>>

\* the loop is over: UpdateSourceList returns nil
UpdateSourceListDone ==
  /\ op = "update"
  /\ op' = "idle"
  /\ opResult' = "nil"
  /\ hist' = [hist EXCEPT !.last = "update", !.seen = {}]
  /\ listing' = <<>>
  /\ idx' = 0
  /\ UNCHANGED <<retry, lister, report, pool, destType, source, dest, catalog, cancelled,
                 files, nextFile, dispatcher, workers, wpc, wfile, werr,
                 errorChan>>

\* ------------------------------------------------------------ interruption
\* what a kill of the process can leave at key p: what is there, or, when a
\* worker is inside SaveFile for p, the file os.Create has truncated
AfterCrash(p) ==
  {dest[p]} \cup
  IF /\ destType = DestinationLocal
     /\ \E w \in Active : /\ wpc[w] = "copy"
                          /\ catalog[wfile[w]].Path = p
  THEN {Truncated} ELSE {}

\* the process is killed while SyncFiles runs: the goroutines are gone, the
\* catalog and the destination stay as the last completed statement left them
Crash ==
  /\ op = "run"
  /\ hist.resume = {}
  /\ op' = "idle"
  /\ opResult' = "none"
  /\ cancelled' = FALSE
  /\ dest' \in [Paths -> UNION {AfterCrash(p) : p \in Paths}]
  /\ \A p \in Paths : dest'[p] \in AfterCrash(p)
  /\ files' = <<>>
  /\ nextFile' = 1
  /\ dispatcher' = "off"
  /\ workers' = 0
  /\ wpc' = [w \in WorkerIds |-> "off"]
  /\ wfile' = [w \in WorkerIds |-> 0]
  /\ werr' = [w \in WorkerIds |-> ""]
  /\ errorChan' = 0
  /\ hist' = [hist EXCEPT !.last = "crash", !.resume = hist.run.fetched,
                          !.run = NoRun]
  /\ UNCHANGED <<retry, lister, report, pool, destType, source, catalog, listing, idx>>

\* --------------------------------------------------------- specifications
\* ---------------------------------------------- StartSync (part_006)
\* the workers of the call in progress
PoolWorkers == 1..pool.n

\* StartSync with nothing pending: return nil at part_006:179
StartSyncNone ==
  /\ op = "idle"
  /\ GetPendingFiles(catalog) = <<>>
  /\ opResult' = "nil"
  /\ cancelled' = FALSE
  /\ pool' = NoPool
  /\ hist' = [hist EXCEPT !.run = NoRun, !.last = "startsync",
                          !.mutations = 0, !.repeat = FALSE]
  /\ UNCHANGED <<retry, lister, report, destType, source, dest, catalog, op,
                 listing, idx, files, nextFile, dispatcher, workers, wpc,
                 wfile, werr, errorChan>>

\* StartSync(ctx, n): fetch the pending entries, start n workers, the
\* goroutine that sends the entries and the one that waits for the workers
StartSync(n) ==
  /\ op = "idle"
  /\ GetPendingFiles(catalog) # <<>>
  /\ op' = "startsync"
  /\ cancelled' = FALSE
  /\ opResult' = "none"
  /\ pool' = [NoPool EXCEPT
                !.mode = "start", !.n = n,
                !.queue = GetPendingFiles(catalog),
                !.pc = [w \in WorkerIds |-> IF w <= n THEN "recv" ELSE "off"],
                !.waiter = "wait",
                !.fetched = Range(GetPendingFiles(catalog))]
  /\ hist' = [hist EXCEPT !.run = NoRun, !.last = "none",
                          !.mutations = 0, !.repeat = FALSE]
  /\ UNCHANGED <<retry, lister, report, destType, source, dest, catalog,
                 listing, idx, files, nextFile, dispatcher, workers, wpc,
                 wfile, werr, errorChan>>

\* filesChan <- file, on a channel that buffers n entries
PoolSend ==
  /\ pool.mode = "start"
  /\ pool.queue # <<>>
  /\ Len(pool.filesChan) < pool.n
  /\ pool' = [pool EXCEPT !.filesChan = Append(@, Head(pool.queue)),
                          !.queue = Tail(@)]
  /\ UNCHANGED <<engine, retry, lister, report>>

\* close(filesChan) after the last send
PoolCloseFiles ==
  /\ pool.mode = "start"
  /\ pool.queue = <<>>
  /\ ~pool.filesClosed
  /\ pool' = [pool EXCEPT !.filesClosed = TRUE]
  /\ UNCHANGED <<engine, retry, lister, report>>

\* for file := range filesChan: worker w receives an entry
PoolReceive(w) ==
  /\ pool.mode = "start"
  /\ pool.pc[w] = "recv"
  /\ pool.filesChan # <<>>
  /\ LET id == Head(pool.filesChan) IN
     pool' = [pool EXCEPT
                !.filesChan = Tail(@), !.file[w] = id, !.pc[w] = "get",
                !.held = IF dest[catalog[id].Path] # Absent
                         THEN @ \cup {id} ELSE @]
  /\ UNCHANGED <<engine, retry, lister, report>>

\* the range loop of worker w ends: filesChan is closed and empty
PoolExit(w) ==
  /\ pool.mode = "start"
  /\ pool.pc[w] = "recv"
  /\ pool.filesChan = <<>>
  /\ pool.filesClosed
  /\ pool' = [pool EXCEPT !.pc[w] = "exit", !.file[w] = 0]
  /\ UNCHANGED <<engine, retry, lister, report>>

\* reader, err := s.sourceClient.GetObject(ctx, file.Path)
PoolGetObject(w) ==
  /\ pool.mode = "start"
  /\ pool.pc[w] = "get"
  /\ pool' = [pool EXCEPT !.pc[w] = "save", !.asked = @ \cup {pool.file[w]}]
  /\ UNCHANGED <<engine, retry, lister, report>>

\* GetObject fails: the error goes to errorsChan, part_006:195-199
PoolGetObjectFail(w) ==
  /\ pool.mode = "start"
  /\ pool.pc[w] = "get"
  /\ CanFail
  /\ pool' = [pool EXCEPT !.pc[w] = "send", !.asked = @ \cup {pool.file[w]},
                          !.err[pool.file[w]] = ErrGetFile]
  /\ hist' = Fault(hist)
  /\ UNCHANGED <<retry, lister, report, destType, source, dest, catalog, op,
                 cancelled, opResult, listing, idx, files, nextFile,
                 dispatcher, workers, wpc, wfile, werr, errorChan>>

\* SaveFile or PutObject writes the object, part_006:205-217
PoolSave(w) ==
  /\ pool.mode = "start"
  /\ pool.pc[w] = "save"
  /\ LET path == catalog[pool.file[w]].Path IN
       /\ source[path] > 0
       /\ dest' = [dest EXCEPT ![path] = Copied(source[path])]
  /\ pool' = [pool EXCEPT !.pc[w] = "mark"]
  /\ UNCHANGED <<retry, lister, report, destType, source, catalog, op,
                 cancelled, opResult, listing, idx, files, nextFile,
                 dispatcher, workers, wpc, wfile, werr, errorChan, hist>>

\* SaveFile or PutObject fails, at the first read when the object is gone
\* from the source: the error goes to errorsChan
PoolSaveFail(w) ==
  /\ pool.mode = "start"
  /\ pool.pc[w] = "save"
  /\ CanFail \/ source[catalog[pool.file[w]].Path] = 0
  /\ LET path == catalog[pool.file[w]].Path IN
       \/ dest' = dest
       \/ /\ destType = DestinationLocal
          /\ dest' = [dest EXCEPT ![path] = Truncated]
  /\ pool' = [pool EXCEPT !.pc[w] = "send",
                          !.err[pool.file[w]] = ErrSaveFile]
  /\ hist' = IF source[catalog[pool.file[w]].Path] = 0 THEN hist
             ELSE Fault(hist)
  /\ UNCHANGED <<retry, lister, report, destType, source, catalog, op,
                 cancelled, opResult, listing, idx, files, nextFile,
                 dispatcher, workers, wpc, wfile, werr, errorChan>>

\* UpdateFileStatus(file.ID, StatusCompleted, ""), part_006:222
PoolMarkCompleted(w) ==
  /\ pool.mode = "start"
  /\ pool.pc[w] = "mark"
  /\ catalog' = UpdateFileStatus(catalog, pool.file[w], StatusCompleted, "")
  /\ pool' = [pool EXCEPT !.pc[w] = "recv", !.file[w] = 0]
  /\ UNCHANGED <<retry, lister, report, destType, source, dest, op,
                 cancelled, opResult, listing, idx, files, nextFile,
                 dispatcher, workers, wpc, wfile, werr, errorChan, hist>>

\* the write of completed fails: the error goes to errorsChan
PoolMarkCompletedFail(w) ==
  /\ pool.mode = "start"
  /\ pool.pc[w] = "mark"
  /\ CanFail
  /\ pool' = [pool EXCEPT !.pc[w] = "send",
                          !.err[pool.file[w]] = ErrUpdateStatus]
  /\ hist' = Fault(hist)
  /\ UNCHANGED <<retry, lister, report, destType, source, dest, catalog, op,
                 cancelled, opResult, listing, idx, files, nextFile,
                 dispatcher, workers, wpc, wfile, werr, errorChan>>

\* errorsChan <- err; continue.  The send waits while the buffer of n
\* errors is full
PoolSendError(w) ==
  /\ pool.mode = "start"
  /\ pool.pc[w] = "send"
  /\ pool.errorsChan < pool.n
  /\ pool' = [pool EXCEPT !.errorsChan = @ + 1, !.pc[w] = "recv",
                          !.file[w] = 0]
  /\ UNCHANGED <<engine, retry, lister, report>>

\* wg.Wait() returns and the goroutine closes errorsChan, then offers
\* doneChan <- true
PoolWaiterClose ==
  /\ pool.mode = "start"
  /\ pool.waiter = "wait"
  /\ \A w \in PoolWorkers : pool.pc[w] = "exit"
  /\ pool' = [pool EXCEPT !.waiter = "send"]
  /\ UNCHANGED <<engine, retry, lister, report>>

\* case err, ok := <-errorsChan with a buffered error: append it.  On the
\* closed and empty channel the case is a continue and changes nothing
PoolCollectError ==
  /\ pool.mode = "start"
  /\ pool.errorsChan > 0
  /\ pool' = [pool EXCEPT !.errorsChan = @ - 1, !.errors = @ + 1]
  /\ UNCHANGED <<engine, retry, lister, report>>

\* part_006:260-264, the result of StartSync when doneChan delivers
StartSyncResult(errors) == IF errors > 0 THEN "error" ELSE "nil"

\* case <-doneChan: select takes it when the waiting goroutine offers the
\* value, whatever errorsChan still holds; StartSync returns
PoolCollectDone ==
  /\ pool.mode = "start"
  /\ pool.waiter = "send"
  /\ op' = "idle"
  /\ opResult' = StartSyncResult(pool.errors)
  /\ pool' = [pool EXCEPT !.mode = "off", !.waiter = "off", !.n = 0,
                          !.filesClosed = FALSE, !.errorsChan = 0,
                          !.errors = 0,
                          !.pc = [w \in WorkerIds |-> "off"]]
  /\ hist' = [hist EXCEPT !.last = "startsync"]
  /\ UNCHANGED <<retry, lister, report, destType, source, dest, catalog,
                 cancelled, listing, idx, files, nextFile, dispatcher,
                 workers, wpc, wfile, werr, errorChan>>

PoolWorker(w) ==
  \/ PoolReceive(w)
  \/ PoolExit(w)
  \/ PoolGetObject(w)
  \/ PoolGetObjectFail(w)
  \/ PoolSave(w)
  \/ PoolSaveFail(w)
  \/ PoolMarkCompleted(w)
  \/ PoolMarkCompletedFail(w)
  \/ PoolSendError(w)

\* ------------------------------ SyncFiles that polls (part_006:507-558)
\* part_006:518, the size of the batch each worker asks for
BatchLimit == 10

\* what GetPendingFiles(projectName, BatchLimit) returns.  The package db
\* of this SyncFiles ends the query in LIMIT ? (part_005:125-133)
GetPendingBatch(cat) == Limit(GetPendingFiles(cat), BatchLimit)

\* the position of a worker after the entry it held: the next entry of the
\* batch, or the next poll
PollAdvance(pl, w) ==
  IF Len(pl.batch[w]) > 1
  THEN [pl EXCEPT !.batch[w] = Tail(@), !.file[w] = pl.batch[w][2],
                  !.pc[w] = "copying"]
  ELSE [pl EXCEPT !.batch[w] = <<>>, !.file[w] = 0, !.pc[w] = "poll"]

\* SyncFiles(ctx, n): start n workers and wait for them
PollStart(n) ==
  /\ op = "idle"
  /\ op' = "poll"
  /\ cancelled' = FALSE
  /\ opResult' = "none"
  /\ pool' = [NoPool EXCEPT
                !.mode = "poll", !.n = n,
                !.pc = [w \in WorkerIds |-> IF w <= n THEN "poll" ELSE "off"]]
  /\ hist' = [hist EXCEPT !.run = NoRun, !.last = "none",
                          !.mutations = 0, !.repeat = FALSE]
  /\ UNCHANGED <<retry, lister, report, destType, source, dest, catalog,
                 listing, idx, files, nextFile, dispatcher, workers, wpc,
                 wfile, werr, errorChan>>

\* worker w fetches a batch: it returns when the batch is empty and starts
\* syncFile for the first entry otherwise
PollFetch(w) ==
  /\ pool.mode = "poll"
  /\ pool.pc[w] = "poll"
  /\ LET batch == GetPendingBatch(catalog) IN
     pool' = IF batch = <<>>
             THEN [pool EXCEPT !.pc[w] = "exit"]
             ELSE [pool EXCEPT !.batch[w] = batch, !.file[w] = Head(batch),
                               !.pc[w] = "copying",
                               !.fetched = @ \cup Range(batch)]
  /\ UNCHANGED <<engine, retry, lister, report>>

\* GetPendingFiles fails: the error goes to errorsChan and the worker
\* returns
PollFetchFail(w) ==
  /\ pool.mode = "poll"
  /\ pool.pc[w] = "poll"
  /\ CanFail
  /\ pool' = [pool EXCEPT !.pc[w] = "exit", !.errorsChan = @ + 1]
  /\ hist' = Fault(hist)
  /\ UNCHANGED <<retry, lister, report, destType, source, dest, catalog, op,
                 cancelled, opResult, listing, idx, files, nextFile,
                 dispatcher, workers, wpc, wfile, werr, errorChan>>

\* syncFile: UpdateFileStatus(file.ID, StatusCopying, "")
PollCopying(w) ==
  /\ pool.mode = "poll"
  /\ pool.pc[w] = "copying"
  /\ catalog' = MarkCopying(catalog, pool.file[w])
  /\ pool' = [pool EXCEPT !.pc[w] = "probe"]
  /\ UNCHANGED <<retry, lister, report, destType, source, dest, op,
                 cancelled, opResult, listing, idx, files, nextFile,
                 dispatcher, workers, wpc, wfile, werr, errorChan, hist>>

\* syncFile: the probe of the destination; UpdateFileStatus(exists) when it
\* holds the path
PollProbe(w) ==
  /\ pool.mode = "poll"
  /\ pool.pc[w] = "probe"
  /\ IF ProbeSees(catalog[pool.file[w]].Path)
     THEN /\ catalog' = UpdateFileStatus(catalog, pool.file[w],
                                         StatusExists, "")
          /\ pool' = PollAdvance(pool, w)
     ELSE /\ catalog' = catalog
          /\ pool' = [pool EXCEPT !.pc[w] = "copy"]
  /\ UNCHANGED <<retry, lister, report, destType, source, dest, op,
                 cancelled, opResult, listing, idx, files, nextFile,
                 dispatcher, workers, wpc, wfile, werr, errorChan, hist>>

\* syncFile: GetObject, Stat, the copy, UpdateFileStatus(completed)
PollCopy(w) ==
  /\ pool.mode = "poll"
  /\ pool.pc[w] = "copy"
  /\ LET path == catalog[pool.file[w]].Path IN
       /\ source[path] > 0
       /\ dest' = [dest EXCEPT ![path] = Copied(source[path])]
  /\ catalog' = UpdateFileStatus(catalog, pool.file[w], StatusCompleted, "")
  /\ pool' = PollAdvance(pool, w)
  /\ UNCHANGED <<retry, lister, report, destType, source, op, cancelled,
                 opResult, listing, idx, files, nextFile, dispatcher,
                 workers, wpc, wfile, werr, errorChan, hist>>

\* syncFile returns an error, as it does every time for an object that is
\* gone from the source
PollCopyFail(w) ==
  /\ pool.mode = "poll"
  /\ pool.pc[w] = "copy"
  /\ CanFail \/ source[catalog[pool.file[w]].Path] = 0
  /\ pool' = [pool EXCEPT !.pc[w] = "error",
                          !.err[pool.file[w]] = ErrCopyFile]
  /\ hist' = IF source[catalog[pool.file[w]].Path] = 0 THEN hist
             ELSE Fault(hist)
  /\ UNCHANGED <<retry, lister, report, destType, source, dest, catalog, op, cancelled,
                 opResult, listing, idx, files, nextFile, dispatcher, workers,
                 wpc, wfile, werr, errorChan>>

\* UpdateFileStatus(file.ID, StatusError, err.Error()), part_006:534
PollRecordError(w) ==
  /\ pool.mode = "poll"
  /\ pool.pc[w] = "error"
  /\ catalog' = UpdateFileStatus(catalog, pool.file[w], StatusError,
                                 pool.err[pool.file[w]])
  /\ pool' = PollAdvance(pool, w)
  /\ UNCHANGED <<retry, lister, report, destType, source, dest, op, cancelled,
                 opResult, listing, idx, files, nextFile, dispatcher, workers,
                 wpc, wfile, werr, errorChan, hist>>

\* the write of error fails: the error goes to errorsChan and the worker
\* returns
PollRecordErrorFail(w) ==
  /\ pool.mode = "poll"
  /\ pool.pc[w] = "error"
  /\ CanFail
  /\ pool' = [pool EXCEPT !.pc[w] = "exit", !.batch[w] = <<>>,
                          !.file[w] = 0, !.errorsChan = @ + 1]
  /\ hist' = Fault(hist)
  /\ UNCHANGED <<retry, lister, report, destType, source, dest, catalog, op, cancelled,
                 opResult, listing, idx, files, nextFile, dispatcher, workers,
                 wpc, wfile, werr, errorChan>>

\* wg.Wait() returns; SyncFiles returns the first error of errorsChan
PollReturn ==
  /\ pool.mode = "poll"
  /\ \A w \in PoolWorkers : pool.pc[w] = "exit"
  /\ op' = "idle"
  /\ opResult' = SyncResult(pool.errorsChan)
  /\ pool' = [pool EXCEPT !.mode = "off", !.n = 0, !.errorsChan = 0,
                          !.pc = [w \in WorkerIds |-> "off"]]
  /\ hist' = [hist EXCEPT !.last = "poll"]
  /\ UNCHANGED <<retry, lister, report, destType, source, dest, catalog,
                 cancelled, listing, idx, files, nextFile, dispatcher,
                 workers, wpc, wfile, werr, errorChan>>

PollWorker(w) ==
  \/ PollFetch(w)
  \/ PollFetchFail(w)
  \/ PollCopying(w)
  \/ PollProbe(w)
  \/ PollCopy(w)
  \/ PollCopyFail(w)
  \/ PollRecordError(w)
  \/ PollRecordErrorFail(w)

Reconcile ==
  \/ ReconcileStart
  \/ ReconcileFile
  \/ ReconcileDone
  \/ ReconcileListError

Worker(w) ==
  \/ Dispatch(w)
  \/ WriteCopying(w)
  \/ Probe(w)
  \/ ProbeFail(w)
  \/ WriteExists(w)
  \/ GetObject(w)
  \/ GetObjectFail(w)
  \/ Copy(w)
  \/ CopyFail(w)
  \/ WriteCompleted(w)
  \/ RecordError(w)
  \/ WorkerExit(w)

WorkerStoreError(w) ==
  \/ WriteCopyingFail(w)
  \/ WriteExistsFail(w)
  \/ WriteCompletedFail(w)
  \/ RecordErrorFail(w)

Next ==
  \/ \E p \in Paths : SourceChange(p)
  \/ Reconcile
  \/ SyncNone
  \/ \E n \in WorkerIds : SyncStart(n)
  \/ DispatcherClose
  \/ \E w \in WorkerIds : Worker(w)
  \/ SyncReturn

\* the catalog store never fails and no operation is cancelled
Spec == Init /\ [][Next]_vars

NextDb ==
  \/ Next
  \/ \E w \in WorkerIds : WorkerStoreError(w)
  \/ SyncStartFail
  \/ ReconcileFileFail

\* every statement on the catalog store may fail
SpecDb == Init /\ [][NextDb]_vars

NextCancel ==
  \/ Reconcile
  \/ SyncNone
  \/ \E n \in WorkerIds : SyncStart(n)
  \/ DispatcherClose
  \/ \E w \in WorkerIds : Worker(w)
  \/ SyncReturn
  \/ Cancel
  \/ ReconcileCancelled
  \/ DispatcherAbort

\* a destination that holds nothing yet, or an object at every key
InitCancel ==
  /\ Init
  /\ \E d \in {Absent, Foreign} : dest = [p \in Paths |-> d]

\* the command in progress may be cancelled
SpecCancel == InitCancel /\ [][NextCancel]_vars

Import ==
  \/ ImportStart
  \/ ImportOpenFail
  \/ \E entry \in AllMCListEntries : ImportEntry(entry)
  \/ \E entry \in AllMCListEntries : ImportEntryFail(entry)
  \/ ImportDone

UpdateSourceList ==
  \/ UpdateSourceListStart
  \/ UpdateSourceListFail
  \/ \E p \in Paths : UpdateSourceEntry(p)
  \/ \E p \in Paths : UpdateSourceEntryFail(p)
  \/ UpdateSourceListDone

NextImport ==
  \/ Reconcile
  \/ Import
  \/ UpdateSourceList
  \/ SyncNone
  \/ SyncStart(1)
  \/ DispatcherClose
  \/ Worker(1)
  \/ SyncReturn

\* a remote destination that holds nothing yet
InitImport ==
  /\ Init
  /\ destType = DestinationMinio
  /\ dest = [p \in Paths |-> Absent]

\* the commands that fill the catalog, and runs of one worker between them
SpecImport == InitImport /\ [][NextImport]_vars

NextCrash ==
  \/ Next
  \/ Crash

\* the process may be killed once during a run
SpecCrash == Init /\ [][NextCrash]_vars

\* the Go scheduler runs every goroutine that can take a step: the sending
\* goroutine, each worker, and the caller waiting in wg.Wait()
RunFairness ==
  /\ \A w \in WorkerIds : WF_vars(Worker(w))
  /\ WF_vars(DispatcherClose)
  /\ WF_vars(DispatcherAbort)
  /\ WF_vars(SyncReturn)

\* cancellation with goroutines that are scheduled fairly
SpecCancelLive == SpecCancel /\ RunFairness

NextRun ==
  \/ Reconcile
  \/ SyncNone
  \/ \E n \in WorkerIds : SyncStart(n)
  \/ DispatcherClose
  \/ \E w \in WorkerIds : Worker(w)
  \/ SyncReturn

\* runs that nothing cancels, with goroutines that are scheduled fairly
SpecRunLive == InitCancel /\ [][NextRun]_vars /\ RunFairness

NextShared ==
  \/ \E p \in Paths : SourceChange(p)
  \/ Reconcile
  \/ SyncNone
  \/ SyncStart(1)
  \/ DispatcherClose
  \/ Worker(1)
  \/ SyncReturn
  \/ \E p \in Paths : ReconcileDuringRun(p)

\* runs of one worker on a catalog that a second process reconciles
SpecShared == InitImport /\ [][NextShared]_vars

NextStartSync ==
  \/ \E p \in Paths : SourceDelete(p)
  \/ UpdateSourceList
  \/ StartSyncNone
  \/ \E n \in WorkerIds : StartSync(n)
  \/ PoolSend
  \/ PoolCloseFiles
  \/ \E w \in WorkerIds : PoolWorker(w)
  \/ PoolWaiterClose
  \/ PoolCollectError
  \/ PoolCollectDone

\* the commands update-list and sync of main.go, one after another
SpecStartSync == Init /\ [][NextStartSync]_vars

NextPoll ==
  \/ \E p \in Paths : SourceDelete(p)
  \/ Reconcile
  \/ \E n \in WorkerIds : PollStart(n)
  \/ \E w \in WorkerIds : PollWorker(w)
  \/ PollReturn

\* reconcile passes and runs of the SyncFiles that polls
SpecPoll == InitImport /\ [][NextPoll]_vars

NextVanish ==
  \/ \E p \in Paths : SourceDelete(p)
  \/ Reconcile
  \/ Import
  \/ SyncNone
  \/ SyncStart(1)
  \/ DispatcherClose
  \/ Worker(1)
  \/ SyncReturn

\* objects disappear from the source between the commands
SpecVanish == InitImport /\ [][NextVanish]_vars

NextQuery ==
  \/ \E projectName \in ProjectNames : GetStatus(projectName)
  \/ \E projectName \in ProjectNames : GetStatusFail(projectName)
  \/ \E projectName \in ProjectNames, limit \in Limits :
       QueryRecentErrors(projectName, limit)
  \/ \E projectName \in ProjectNames, limit \in Limits :
       QueryPendingFiles(projectName, limit)

\* any table the statements can have written, and nothing in progress
InitQuery ==
  /\ destType = DestinationMinio
  /\ source = [p \in Paths |-> 1]
  /\ dest = [p \in Paths |-> Absent]
  /\ \E n \in 0..MaxPaths : catalog \in TablesOf(n)
  /\ op = "idle"
  /\ cancelled = FALSE
  /\ opResult = "none"
  /\ listing = <<>>
  /\ idx = 0
  /\ files = <<>>
  /\ nextFile = 1
  /\ dispatcher = "off"
  /\ workers = 0
  /\ wpc = [w \in WorkerIds |-> "off"]
  /\ wfile = [w \in WorkerIds |-> 0]
  /\ werr = [w \in WorkerIds |-> ""]
  /\ errorChan = 0
  /\ hist = HistInit
  /\ retry = NoCall
  /\ lister = NoLister
  /\ report = NoReport
  /\ pool = NoPool

\* the queries of the catalog, on every table
SpecQuery == InitQuery /\ [][NextQuery]_vars

NextFeed ==
  \/ \E p \in Paths : SourceChange(p)
  \/ ImportOpen
  \/ ScanLine
  \/ ScanTooLong
  \/ ScanEnd
  \/ ImportNext
  \/ ImportReturn

\* imports of feeds of up to MaxFeed lines, one after another
SpecFeed == InitImport /\ [][NextFeed]_vars

NextList ==
  \/ \E p \in Paths : SourceChange(p)
  \/ ListStart
  \/ ListerYield
  \/ ListerError
  \/ ListerEnd
  \/ ListerCloseErrorChan
  \/ ListerCloseFilesChan
  \/ ReaderFile
  \/ ReaderProcess
  \/ ReaderError

\* UpdateSourceFileList with the goroutine of ListFiles and its channels
SpecList == InitImport /\ [][NextList]_vars

NextRetry ==
  \/ \E operation \in Operations : WithRetry(operation)
  \/ RetrySleep
  \/ \E size \in ObjectSizes : CopyFileStat(size)
  \/ \E err \in AllFnResults : RetryCall(err)

\* the calls of withRetry, one after another
SpecRetry == InitImport /\ [][NextRetry]_vars

TypeOK ==
  /\ destType \in {DestinationMinio, DestinationLocal}
  /\ source \in [Paths -> 0..MaxVer]
  /\ \A p \in Paths : dest[p].state \in {"absent", "foreign", "truncated", "copied"}
  /\ op \in {"idle", "reconcile", "run", "import", "update", "list", "scan",
             "startsync", "poll"}
  /\ cancelled \in BOOLEAN
  /\ opResult \in {"none", "nil", "error"}
  /\ Len(catalog) <= MaxPaths
  /\ errorChan \in 0..MaxWorkers

\* ------------------------------------------------------------- properties
\* SyncFiles has returned and no command has started since
RunReturned == op = "idle" /\ hist.last = "run"

Busy(w) == w \in Active /\ wpc[w] \notin {"recv", "exit"}

\* C1 (as claimed): an entry whose path the destination holds when the
\* worker probes it is never fetched from the source (no GetObject, no
\* CopyFile) and ends the run in status exists.
ExistsSkipClaim ==
  /\ hist.run.held \cap hist.run.asked = {}
  /\ RunReturned =>
       \A id \in hist.run.held : catalog[id].Status = StatusExists

OneWorkerPerEntry ==
  /\ \A id \in Paths : hist.run.handed[id] <= 1
  /\ \A v, w \in WorkerIds :
       (v # w /\ Busy(v) /\ Busy(w)) => wfile[v] # wfile[w]

\* C3 witness: two workers run syncFile at the same time
OneWorkerPerEntryWitness ==
  /\ op = "run"
  /\ \E v, w \in WorkerIds : v # w /\ Busy(v) /\ Busy(w)

\* C4: when SyncFiles returns, every fetched entry was processed once, the
\* entries whose syncFile did not fail are completed or exists, and the
\* result is an error if some syncFile failed.
PartialFailureIsolation ==
  RunReturned =>
    /\ \A id \in hist.run.fetched : hist.run.handed[id] = 1
    /\ \A id \in hist.run.fetched \ Failed :
         catalog[id].Status \in {StatusCompleted, StatusExists}
    /\ Failed # {} => opResult = "error"

\* C4 witness: a run in which the copy of one entry failed and another
\* entry was processed to the end
PartialFailureIsolationWitness ==
  /\ RunReturned
  /\ \E id \in hist.run.fetched : hist.run.err[id] = ErrCopyFile
  /\ hist.run.fetched \ Failed # {}

IdempotentReconcileClaim ==
  (hist.repeat /\ hist.faults = 0) => hist.mutations = 0

\* C8 (as claimed): when reconcile receives an object whose entry has another
\* ETag, the entry takes the size, ETag and modification time of the object,
\* status pending and an empty error message.
ReconcileRefreshClaim ==
  [][(op = "reconcile" /\ idx' = idx + 1) =>
       LET file == listing[idx + 1]
           e == GetFileByPath(catalog, file.Path)
       IN (e # 0 /\ catalog[e].ETag # file.ETag) =>
            /\ catalog'[e].Size = file.Size
            /\ catalog'[e].ETag = file.ETag
            /\ catalog'[e].LastModified = file.LastModified
            /\ catalog'[e].Status = StatusPending
            /\ catalog'[e].ErrorMessage = ""]_vars

\* C9: when reconcile receives an object that has an entry, an ETag other
\* than the stored one sets the entry to pending, and the stored ETag leaves
\* every field of the entry as it was.
ChangeDetection ==
  [][(op = "reconcile" /\ idx' = idx + 1) =>
       LET file == listing[idx + 1]
           e == GetFileByPath(catalog, file.Path)
       IN e # 0 =>
            IF catalog[e].ETag # file.ETag
            THEN catalog'[e].Status = StatusPending
            ELSE catalog'[e] = catalog[e]]_vars

\* C9 witness: the pass has just reset an entry that a run had completed
ChangeDetectionWitness ==
  /\ op = "reconcile"
  /\ idx > 0
  /\ \E i \in 1..Len(catalog) :
       /\ catalog[i].Path = listing[idx].Path
       /\ catalog[i].ETag # listing[idx].ETag
       /\ catalog[i].Status = StatusPending
       /\ dest[catalog[i].Path].state = "copied"

\* C10 (as claimed), in behaviours where nothing has failed: a run that
\* fetches an entry whose copy at the destination is of a version the source
\* has replaced reads the object from the source, writes it to the
\* destination and ends with the entry completed; entries the run did not
\* fetch are not read.
RecopyChangedClaim ==
  (RunReturned /\ hist.faults = 0) =>
    /\ \A id \in hist.run.recopy :
         /\ id \in hist.run.asked
         /\ catalog[id].Status = StatusCompleted
         /\ dest[catalog[id].Path] = Copied(source[catalog[id].Path])
    /\ \A id \in 1..Len(catalog) :
         id \notin hist.run.fetched => id \notin hist.run.asked

\* C11: a record of an import feed leaves every entry the catalog holds as
\* it was, whatever size and ETag the record carries; it adds at most one
\* entry, for the path of the record, in status pending, and only when the
\* catalog held no entry of that path.
ImportAdditive ==
  [][(op = "import" /\ idx' = idx + 1) =>
       LET entry == listing'[1]
           known == \E i \in 1..Len(catalog) : catalog[i].Path = entry.Key
       IN /\ Len(catalog') >= Len(catalog)
          /\ \A i \in 1..Len(catalog) : catalog'[i] = catalog[i]
          /\ known => catalog' = catalog
          /\ Len(catalog') <= Len(catalog) + 1
          /\ \A i \in (Len(catalog) + 1)..Len(catalog') :
               /\ catalog'[i].Path = entry.Key
               /\ catalog'[i].Status = StatusPending]_vars

\* C11 witness: the import has processed a record whose path has an entry
\* with another ETag and another size, which a run had completed
ImportAdditiveWitness ==
  /\ op = "import"
  /\ idx > 0
  /\ \E i \in 1..Len(catalog) :
       /\ catalog[i].Path = listing[1].Key
       /\ catalog[i].ETag # listing[1].ETag
       /\ catalog[i].Size # listing[1].Size
       /\ catalog[i].Status = StatusCompleted

\* C12: the catalog never holds two entries of one path.
CatalogUnique ==
  \A i, j \in 1..Len(catalog) :
    catalog[i].Path = catalog[j].Path => i = j

\* C12 witness: an import or an update has received a path twice, and the
\* catalog holds an entry of it
CatalogUniqueWitness ==
  /\ op \in {"import", "update"}
  /\ idx > Cardinality(hist.seen)
  /\ \A p \in hist.seen : \E i \in 1..Len(catalog) : catalog[i].Path = p

\* C13 (as claimed), in behaviours where no call has failed: once a run was
\* interrupted and a later run has returned, every entry the interrupted run
\* had fetched is completed or exists and the destination holds its object.
ResumeConvergesClaim ==
  (RunReturned /\ hist.resume # {} /\ hist.faults = 0) =>
    \A id \in hist.resume :
      /\ catalog[id].Status \in {StatusCompleted, StatusExists}
      /\ dest[catalog[id].Path].state \in {"foreign", "copied"}

\* C14: an entry in status completed has the copy the run wrote at the
\* destination, and an entry whose syncFile returned an error, the calls
\* that cancellation interrupted included, is in status copying or error.
NoFakeSuccess ==
  /\ \A i \in 1..Len(catalog) :
       catalog[i].Status = StatusCompleted =>
         dest[catalog[i].Path] = Copied(source[catalog[i].Path])
  /\ \A id \in Failed : catalog[id].Status \in {StatusCopying, StatusError}

\* C14 witness: the signal has fired, the write of an entry was interrupted
\* and the entry is in status error, and another entry had been completed
NoFakeSuccessWitness ==
  /\ cancelled
  /\ \E id \in Failed :
       /\ hist.run.err[id] = ErrCopyFile
       /\ catalog[id].Status = StatusError
  /\ \E i \in 1..Len(catalog) : catalog[i].Status = StatusCompleted

\* C15 (as claimed): once the cancellation signal has fired during a run,
\* SyncFiles returns to its caller.
CancelUnwindsClaim ==
  (op = "run" /\ cancelled) ~> (op = "idle")

\* C16 (as claimed): on a local destination the final path of an object is
\* absent or holds a whole object; it never holds the file a failed SaveFile
\* has truncated.
AtomicLocalWriteClaim ==
  destType = DestinationLocal =>
    \A p \in Paths : dest[p] # Truncated

RECURSIVE Unwrap(_)
\* the error of the store inside the layers fmt.Errorf has put around it
Unwrap(err) ==
  IF err # NoError /\ Head(err) = "wrap" THEN Unwrap(Tail(err)) ELSE err

\* C19 (as claimed): when the store reports a timeout during the enumeration
\* of ListFiles, or to GetObject or StatObject, the operation is attempted
\* again unless that was attempt number maxRetries.
TransientRetriedClaim ==
  retry.operation \in {"ListObjects", "GetObject", "StatObject"} =>
    \A i \in 1..Len(retry.trace) :
      isRetryableError(Unwrap(retry.trace[i])) =>
        \/ i < Len(retry.trace)
        \/ retry.pc = "sleep"
        \/ i = maxRetries

\* C20 (as claimed): CopyFile copies an object whose size is at or above the
\* 64 MiB threshold, the size of exactly 64 MiB included, by ComposeObject,
\* and an object below the threshold by PutObject of the stream.
TransferSizePolicyClaim ==
  retry.transfer # "none" =>
    (retry.transfer = "ComposeObject" <=> retry.size >= ComposeThreshold)

RECURSIVE ReconcileAll(_, _)
\* the catalog after the objects of seq have been processed in order
ReconcileAll(cat, seq) ==
  IF seq = <<>> THEN cat
  ELSE ReconcileAll(ReconcileObject(cat, Head(seq)), Tail(seq))

\* C21: when the enumeration has failed, UpdateSourceFileList returns an
\* error, whichever channel its select reads first; the catalog then holds
\* the effect of every object received before the failure, and of no other.
ListErrorAborts ==
  (op = "idle" /\ hist.last = "list" /\ lister.failed) =>
    /\ opResult = "error"
    /\ catalog = ReconcileAll(lister.before,
                              SubSeq(lister.objects, 1, lister.pos))

\* C21 witness: the enumeration failed after the first object and before
\* the second; the first is in the catalog and the error was returned
ListErrorAbortsWitness ==
  /\ op = "idle"
  /\ hist.last = "list"
  /\ lister.failed
  /\ lister.pos = 1
  /\ Len(lister.objects) = 2
  /\ lister.before = <<>>
  /\ Len(catalog) = 1
  /\ opResult = "error"

\* C22 (as claimed): a failure of the catalog store during ImportFileList or
\* UpdateSourceList ends the operation, which returns an error.
CatalogErrorsFatalClaim ==
  [][((\E entry \in AllMCListEntries : ImportEntryFail(entry))
      \/ (\E p \in Paths : UpdateSourceEntryFail(p)))
     => (op' = "idle" /\ opResult' = "error")]_vars

\* C23: an entry whose status is not error has an empty error message; the
\* write of pending, copying, exists or completed clears the message.
ErrorMessageCleared ==
  \A i \in 1..Len(catalog) :
    catalog[i].Status # StatusError => catalog[i].ErrorMessage = ""

\* C23 witness: an entry that a run fetched in status error, with the
\* message of its failure, has been copied and is completed with the
\* message cleared
ErrorMessageClearedWitness ==
  \E i \in 1..Len(catalog) :
    /\ i \in hist.run.retried
    /\ catalog[i].Status = StatusCompleted
    /\ catalog[i].ErrorMessage = ""

\* C24: no step removes an entry or changes the ID or the path of one; a
\* step of the reconcile pass leaves the entries of the paths its listing
\* does not name as they are, and a step of the import those of the paths
\* other than the record's.
NoDeletionPropagation ==
  [][/\ Len(catalog') >= Len(catalog)
     /\ \A i \in 1..Len(catalog) :
          /\ catalog'[i].ID = catalog[i].ID
          /\ catalog'[i].Path = catalog[i].Path
          /\ (op = "reconcile"
              /\ \A k \in 1..Len(listing) : listing[k].Path # catalog[i].Path)
             => catalog'[i] = catalog[i]
          /\ (op = "import"
              /\ (listing' = <<>> \/ listing'[1].Key # catalog[i].Path))
             => catalog'[i] = catalog[i]]_vars

\* C24 witness: a reconcile pass has returned after an object was removed
\* from the source; the entry of the object is still there, completed
NoDeletionPropagationWitness ==
  /\ op = "idle"
  /\ hist.last = "reconcile"
  /\ opResult = "nil"
  /\ \E i \in 1..Len(catalog) :
       /\ source[catalog[i].Path] = 0
       /\ catalog[i].Status = StatusCompleted

\* C25: no entry has status not_found.
NotFoundUnreachable ==
  \A i \in 1..Len(catalog) : catalog[i].Status # StatusNotFound

\* C25 witness: the object of an entry was removed from the source after
\* it was listed; the copy failed and the entry is in status error
NotFoundUnreachableWitness ==
  \E i \in 1..Len(catalog) :
    /\ source[catalog[i].Path] = 0
    /\ catalog[i].Status = StatusError
    /\ catalog[i].ErrorMessage = ErrCopyFile

\* the rows of the project the last query asked for
Asked == {i \in 1..Len(catalog) : catalog[i].ProjectName = report.project}

\* C26: a query of the catalog, GetStatus included, leaves every row as it
\* is, whether it succeeds or fails.
StatusReadOnly ==
  [][report' # report => catalog' = catalog]_vars

\* C26 witness: GetStatus has reported an entry in status error
StatusReadOnlyWitness ==
  /\ report.query = "GetStatus"
  /\ report.result = "nil"
  /\ Len(report.rows) = 1
  /\ Len(report.counts) = 2

\* C27: GetStatusCounts returns one row for each status an entry of the
\* project has, in the order of the statuses, with the number of those
\* entries and the sum of their sizes; the counts add up to the number of
\* entries of the project.
StatusCountsExact ==
  (report.query = "GetStatus" /\ report.result = "nil") =>
    LET c == report.counts IN
    /\ \A i \in Asked : \E k \in 1..Len(c) : c[k].Status = catalog[i].Status
    /\ \A k \in 1..Len(c) :
         LET group == {i \in Asked : catalog[i].Status = c[k].Status} IN
         /\ group # {}
         /\ c[k].Count = Cardinality(group)
         /\ c[k].Size = SumSize(catalog, group)
    /\ \A k, l \in 1..Len(c) :
         k < l => StatusRank(c[k].Status) < StatusRank(c[l].Status)
    /\ SumSize([k \in 1..Len(c) |-> [Size |-> c[k].Count]], 1..Len(c))
         = Cardinality(Asked)

\* C27 witness: two entries of the project share a status and are counted
\* in one row
StatusCountsExactWitness ==
  /\ report.query = "GetStatus"
  /\ report.result = "nil"
  /\ Len(report.counts) = 1
  /\ report.counts[1].Count = 2
  /\ report.counts[1].Size = 30

\* C28: GetRecentErrors returns at most limit entries, all of the project
\* and in status error, the later update first, and no entry in error it
\* leaves out was updated after one it returns.
RecentErrorsExact ==
  report.query = "GetRecentErrors" =>
    LET r == report.rows IN
    /\ Len(r) <= report.limit
    /\ \A k \in 1..Len(r) : /\ r[k] \in Asked
                             /\ catalog[r[k]].Status = StatusError
    /\ \A k, l \in 1..Len(r) :
         k < l => /\ r[k] # r[l]
                  /\ catalog[r[k]].UpdatedAt >= catalog[r[l]].UpdatedAt
    /\ \A i \in Asked :
         (catalog[i].Status = StatusError /\ \A k \in 1..Len(r) : r[k] # i)
         => \A k \in 1..Len(r) : catalog[i].UpdatedAt <= catalog[r[k]].UpdatedAt

\* C28 witness: of two entries in error the limit of 1 has kept the one
\* updated last
RecentErrorsExactWitness ==
  /\ report.query = "GetRecentErrors"
  /\ report.limit = 1
  /\ Len(report.rows) = 1
  /\ \E i \in Asked : /\ catalog[i].Status = StatusError
                       /\ catalog[i].UpdatedAt < catalog[report.rows[1]].UpdatedAt

\* C29: GetPendingFiles with limit 0 returns the entries of the project in
\* status pending or error, every one of them once and no other entry, the
\* one created first first.
PendingWorkSet ==
  (report.query = "GetPendingFiles" /\ report.limit = 0) =>
    LET r == report.rows IN
    /\ {r[k] : k \in 1..Len(r)}
         = {i \in Asked : catalog[i].Status \in {StatusPending, StatusError}}
    /\ \A k, l \in 1..Len(r) :
         k < l => /\ r[k] # r[l]
                  /\ catalog[r[k]].CreatedAt <= catalog[r[l]].CreatedAt

\* C29 witness: limit 0 has returned a pending entry and an entry in error
PendingWorkSetWitness ==
  /\ report.query = "GetPendingFiles"
  /\ report.limit = 0
  /\ Len(report.rows) = 2
  /\ catalog[report.rows[1]].Status = StatusPending
  /\ catalog[report.rows[2]].Status = StatusError
  /\ catalog[report.rows[1]].CreatedAt < catalog[report.rows[2]].CreatedAt

\* C30 (as claimed): whatever lines of the feed are malformed, ImportFileList
\* returns success, and every well-formed file record of the feed has an
\* entry in the catalog when it returns.
ImportToleratesMalformedClaim ==
  (op = "idle" /\ hist.last = "import") =>
    /\ opResult = "nil"
    /\ \A p \in hist.seen : GetFileByPath(catalog, p) # 0

\* C31 (as claimed): ListFiles yields no key that ends in the separator, so
\* no catalog entry has such a path.
NoDirectoryMarkerEntriesClaim ==
  /\ \A k \in 1..lister.pos :
       ~IsDirectoryMarker(lister.objects[k].Path)
  /\ \A i \in 1..Len(catalog) : ~IsDirectoryMarker(catalog[i].Path)

InFlight ==
  {id \in hist.run.fetched : catalog[id].Status = StatusCopying}

LandedContentClaim ==
  \A i \in 1..Len(catalog) :
    catalog[i].Status \in {StatusCompleted, StatusExists} =>
      dest[catalog[i].Path].state \notin {"absent", "truncated"}

\* C38 (as claimed): when an entry a worker holds in flight has been reset
\* to pending, no write of the worker changes its status: it stays pending.
CompareAndSetClaim ==
  [][\A w \in WorkerIds :
       (/\ Busy(w)
        /\ wpc[w] # "copying"
        /\ catalog[wfile[w]].Status = StatusPending)
       => catalog'[wfile[w]].Status = StatusPending]_vars

\* StartSync has returned and no command has started since
StartSyncReturned == op = "idle" /\ hist.last = "startsync"

\* IDs of the last StartSync for which a worker sent an error
PoolFailed == {i \in Paths : pool.err[i] # ""}

\* C32 (as claimed): StartSync returns an error when the fetch, the write or
\* the status update of an entry failed, however the goroutines interleave.
StartSyncOutcomeClaim ==
  StartSyncReturned => (PoolFailed # {} => opResult = "error")

\* C33 (as claimed): an entry whose fetch or write failed in StartSync is in
\* status error with the message of the failure, and no entry the run
\* fetched is pending when it has returned.
StartSyncRecordsFailureClaim ==
  StartSyncReturned =>
    /\ \A id \in PoolFailed :
         pool.err[id] \in {ErrGetFile, ErrSaveFile} =>
           /\ catalog[id].Status = StatusError
           /\ catalog[id].ErrorMessage = pool.err[id]
    /\ \A id \in pool.fetched : catalog[id].Status # StatusPending

\* C34 (as claimed): a worker of StartSync sets the entry it received to
\* copying before it does anything else, and an entry whose path the
\* destination holds is never fetched from the source and ends in exists.
StartSyncExistsSkipClaim ==
  /\ \A w \in WorkerIds :
       pool.mode = "start" /\ pool.pc[w] \in {"save", "mark", "send"}
         => catalog[pool.file[w]].Status = StatusCopying
  /\ pool.held \cap pool.asked = {}
  /\ StartSyncReturned =>
       \A id \in pool.held : catalog[id].Status = StatusExists

\* worker w of the SyncFiles that polls is inside syncFile
InSyncFile(w) ==
  pool.mode = "poll" /\ pool.pc[w] \in {"probe", "copy"}

\* C39 (as claimed): no two workers of the SyncFiles that polls run syncFile
\* for the same entry at the same time.
PollOneWorkerPerEntryClaim ==
  \A v, w \in WorkerIds :
    (v # w /\ InSyncFile(v) /\ InSyncFile(w)) => pool.file[v] # pool.file[w]

\* C40 (as claimed): an entry whose copy failed in a run of the SyncFiles
\* that polls is not handed to syncFile again in that run.
PollNoRetryClaim ==
  \A w \in WorkerIds :
    InSyncFile(w) => pool.err[pool.file[w]] = ""

====
